---------------------------- MODULE Spec2Model ----------------------------
(***************************************************************************)
(* Model of the converter-JSON validator of strict-validate-converters.js: *)
(* the RealisticConverterValidator class, its schema table and the         *)
(* collection-level validateConverters entry point.                        *)
(*                                                                         *)
(* JSON values are tagged records.  A JavaScript string value is kept      *)
(* run-length encoded: a sequence of segments, each a text (a sequence of  *)
(* symbols) repeated `times` times, so that a 1000-word text stays small.  *)
(* The symbol " " is one whitespace character, every other symbol is a run *)
(* of non-whitespace characters.  Property keys and error messages are     *)
(* TLA+ strings; ToJSString converts a value to the string JavaScript      *)
(* would interpolate or use as a property key.                             *)
(* The arrow of the "Missing conversion" message is written "->".          *)
(***************************************************************************)
EXTENDS Integers, Sequences, FiniteSets, TLC

VARIABLES
  converters,   \* argument of the latest validateConverters call
  failedIds,    \* this.failedIds
  wordCounts,   \* this.wordCounts (entries in insertion order)
  warnings,     \* this.warnings
  outcome,      \* how the latest call ended and what it printed/returned
  calls,        \* number of validateConverters calls made on the instance
  faulty,       \* validate callbacks of SECTION_STRUCTURES replaced by a throwing one
  cli,          \* command-line run: arguments, file, fatal condition, exit code
  page          \* generated converter page: its data, its inputs and the last result

vars ==
  <<converters, failedIds, wordCounts, warnings, outcome, calls, faulty, cli, page>>

-----------------------------------------------------------------------------
(* JSON / JavaScript values *)

Undefined == [type |-> "undefined"]
Null == [type |-> "null"]
Bool(b) == [type |-> "boolean", b |-> b]
Num(lit) == [type |-> "number", lit |-> lit]
Str(segments) == [type |-> "string", s |-> segments]
Rep(text, times) == [text |-> text, times |-> times]
Arr(elems) == [type |-> "array", a |-> elems]
Obj(entries) == [type |-> "object", o |-> entries]
KV(key, value) == [k |-> key, v |-> value]

(* the string made of one run of non-whitespace characters *)
S(word) == Str(<<Rep(<<word>>, 1)>>)
EmptyString == Str(<<>>)

RECURSIVE SumSeq(_)
SumSeq(q) == IF q = <<>> THEN 0 ELSE Head(q) + SumSeq(Tail(q))

RECURSIVE Flatten(_)
Flatten(qq) == IF qq = <<>> THEN <<>> ELSE Head(qq) \o Flatten(Tail(qq))

RECURSIVE JoinStr(_, _)
JoinStr(q, sep) ==
  IF q = <<>> THEN ""
  ELSE IF Len(q) = 1 THEN Head(q)
  ELSE Head(q) \o sep \o JoinStr(Tail(q), sep)

SeqToSet(q) == {q[i] : i \in 1..Len(q)}
Includes(q, x) == \E i \in 1..Len(q) : q[i] = x

(* typeof v *)
TypeOf(v) ==
  CASE v.type = "undefined" -> "undefined"
    [] v.type = "boolean" -> "boolean"
    [] v.type = "number" -> "number"
    [] v.type = "string" -> "string"
    [] v.type = "function" -> "function"
    [] OTHER -> "object"

IsArray(v) == v.type = "array"

(* ToBoolean(v): the falsy JSON values are null, false, 0 and "" *)
Truthy(v) ==
  CASE v.type = "undefined" -> FALSE
    [] v.type = "null" -> FALSE
    [] v.type = "boolean" -> v.b
    [] v.type = "number" -> v.lit \notin {"0", "-0"}
    [] v.type = "string" ->
         \E k \in 1..Len(v.s) : v.s[k].times > 0 /\ v.s[k].text # <<>>
    [] OTHER -> TRUE

(* String(v), as used by template literals and by property-key conversion *)
RECURSIVE ToJSString(_)
ToJSString(v) ==
  CASE v.type = "undefined" -> "undefined"
    [] v.type = "null" -> "null"
    [] v.type = "boolean" -> IF v.b THEN "true" ELSE "false"
    [] v.type = "number" -> v.lit
    [] v.type = "string" ->
         JoinStr([k \in 1..Len(v.s) |->
                    JoinStr([c \in 1..v.s[k].times |-> JoinStr(v.s[k].text, "")], "")], "")
    [] v.type = "function" -> "function () { [native code] }"
    [] v.type = "array" ->
         JoinStr([i \in 1..Len(v.a) |->
                    IF v.a[i].type \in {"null", "undefined"} THEN ""
                    ELSE ToJSString(v.a[i])], ",")
    [] OTHER -> "[object Object]"

(* Object.keys(v), Object.entries(v); a string lists one index per symbol *)
Keys(v) ==
  CASE v.type = "object" -> [i \in 1..Len(v.o) |-> v.o[i].k]
    [] v.type = "array" -> [i \in 1..Len(v.a) |-> ToString(i - 1)]
    [] v.type = "string" ->
         [i \in 1..SumSeq([k \in 1..Len(v.s) |-> v.s[k].times * Len(v.s[k].text)])
            |-> ToString(i - 1)]
    [] OTHER -> <<>>

Entries(v) ==
  CASE v.type = "object" -> v.o
    [] v.type = "array" -> [i \in 1..Len(v.a) |-> KV(ToString(i - 1), v.a[i])]
    [] OTHER -> <<>>

(* Property names every object inherits from Object.prototype *)
OBJECT_PROTOTYPE_KEYS ==
  {"constructor", "toString", "valueOf", "hasOwnProperty", "isPrototypeOf",
   "propertyIsEnumerable", "toLocaleString", "__proto__"}

Func == [type |-> "function"]

(* v[key] for a non-null v: an own property, an inherited one, or undefined *)
Get(v, key) ==
  LET e == Entries(v)
      hit == {i \in 1..Len(e) : e[i].k = key}
  IN IF hit # {} THEN e[CHOOSE i \in hit : TRUE].v
     ELSE IF key \in OBJECT_PROTOTYPE_KEYS THEN Func
     ELSE Undefined

(* obj[key] = value on an entry list: replaces in place or appends *)
SetEntry(entries, key, value) ==
  IF \E i \in 1..Len(entries) : entries[i].k = key
    THEN [i \in 1..Len(entries) |->
            IF entries[i].k = key THEN KV(key, value) ELSE entries[i]]
    ELSE Append(entries, KV(key, value))

-----------------------------------------------------------------------------
(* Word count *)

(* countWords: str.trim().split(/\s+/).filter(w => w.length > 0).length,  *)
(* i.e. the number of maximal runs of non-whitespace symbols, counted as   *)
(* the positions where such a run starts.  In a segment, a run starts      *)
(* inside the text (every copy), at the head of the first copy (when the   *)
(* preceding segment ends in whitespace) and at the head of a later copy   *)
(* (when the text itself ends in whitespace).                              *)
StartsInside(text) ==
  Cardinality({i \in 2..Len(text) : text[i] # " " /\ text[i - 1] = " "})

countWords(str) ==
  IF TypeOf(str) # "string" THEN 0
  ELSE LET seg(k) == str.s[k]
           live == [k \in 1..Len(str.s) |-> seg(k).times > 0 /\ seg(k).text # <<>>]
           headWord(k) == seg(k).text[1] # " "
           tailSpace(k) == seg(k).text[Len(seg(k).text)] = " "
           \* the nearest non-empty segment before k ends in whitespace (or none)
           prevSpace(k) ==
             LET before == {j \in 1..(k - 1) : live[j]}
             IN before = {} \/ tailSpace(CHOOSE j \in before : \A h \in before : h <= j)
       IN SumSeq([k \in 1..Len(str.s) |->
            IF ~live[k] THEN 0
            ELSE seg(k).times * StartsInside(seg(k).text)
                 + (IF headWord(k) /\ prevSpace(k) THEN 1 ELSE 0)
                 + (IF headWord(k) /\ tailSpace(k) THEN seg(k).times - 1 ELSE 0)])

(* The walk with the count of a nested value assigned to the running total *)
(* instead of added to it.                                                  *)
RECURSIVE countWordsInObjectAssigning(_)
countWordsInObjectAssigning(obj) ==
  IF ~Truthy(obj) \/ TypeOf(obj) # "object" THEN 0
  ELSE LET vals == IF IsArray(obj) THEN obj.a
                   ELSE [i \in 1..Len(obj.o) |-> obj.o[i].v]
           total[i \in 0..Len(vals)] ==
             IF i = 0 THEN 0
             ELSE IF TypeOf(vals[i]) = "string" THEN total[i - 1] + countWords(vals[i])
             ELSE IF TypeOf(vals[i]) = "object" /\ vals[i] # Null
               THEN countWordsInObjectAssigning(vals[i])
             ELSE total[i - 1]
       IN total[Len(vals)]

RECURSIVE countWordsInObject(_)
countWordsInObject(obj) ==
  IF ~Truthy(obj) \/ TypeOf(obj) # "object" THEN 0
  ELSE LET vals == IF IsArray(obj) THEN obj.a
                   ELSE [i \in 1..Len(obj.o) |-> obj.o[i].v]
       IN SumSeq([i \in 1..Len(vals) |->
                    IF TypeOf(vals[i]) = "string" THEN countWords(vals[i])
                    ELSE IF TypeOf(vals[i]) = "object" /\ vals[i] # Null
                      THEN countWordsInObject(vals[i])
                    ELSE 0])

(* A word count that leaves the description out *)
calculateWordCountWithoutDescription(converter) ==
  LET title == Get(converter, "title")
      contentSections == Get(converter, "contentSections")
      faqs == Get(converter, "faqs")
  IN (IF Truthy(title) THEN countWords(title) ELSE 0)
     + (IF Truthy(contentSections) THEN countWordsInObject(contentSections) ELSE 0)
     + (IF Truthy(faqs) /\ IsArray(faqs)
          THEN SumSeq([i \in 1..Len(faqs.a) |->
                 (IF Truthy(Get(faqs.a[i], "question"))
                    THEN countWords(Get(faqs.a[i], "question")) ELSE 0)
                 + (IF Truthy(Get(faqs.a[i], "answer"))
                      THEN countWords(Get(faqs.a[i], "answer")) ELSE 0)])
          ELSE 0)

(* calculateWordCount reads faq.question of every element of a faqs array: *)
(* a null element is a TypeError (line 756).                                *)
calculateWordCountThrows(converter) ==
  LET faqs == Get(converter, "faqs")
  IN Truthy(faqs) /\ IsArray(faqs) /\ \E i \in 1..Len(faqs.a) : faqs.a[i] = Null

(* The faqs loop of calculateWordCount reads faq.question of every element: *)
(* a null element makes it throw.                                           *)
calculateWordCount(converter) ==
  LET title == Get(converter, "title")
      description == Get(converter, "description")
      contentSections == Get(converter, "contentSections")
      faqs == Get(converter, "faqs")
  IN (IF Truthy(title) THEN countWords(title) ELSE 0)
     + (IF Truthy(description) THEN countWords(description) ELSE 0)
     + (IF Truthy(contentSections) THEN countWordsInObject(contentSections) ELSE 0)
     + (IF Truthy(faqs) /\ IsArray(faqs)
          THEN SumSeq([i \in 1..Len(faqs.a) |->
                 (IF Truthy(Get(faqs.a[i], "question"))
                    THEN countWords(Get(faqs.a[i], "question")) ELSE 0)
                 + (IF Truthy(Get(faqs.a[i], "answer"))
                      THEN countWords(Get(faqs.a[i], "answer")) ELSE 0)])
          ELSE 0)

-----------------------------------------------------------------------------
(* Section schema table *)

NoField == [present |-> FALSE]
(* An array-field descriptor: itemType is the itemStructure's `type`      *)
(* ("none" when the itemStructure has no type), itemValidate whether the   *)
(* itemStructure has a validate callback.                                  *)
ArrayField(minItems, itemType, itemRequiredKeys, itemValidate) ==
  [present |-> TRUE, minItems |-> minItems, itemType |-> itemType,
   requiredKeys |-> itemRequiredKeys, validate |-> itemValidate]

NoArrays ==
  [items |-> NoField, tips |-> NoField, links |-> NoField, mistakes |-> NoField,
   tools |-> NoField, concepts |-> NoField, regions |-> NoField,
   examples |-> NoField, steps |-> NoField, columns |-> NoField, rows |-> NoField]

Structure(requiredKeys, validate, arrays) ==
  [known |-> TRUE, requiredKeys |-> requiredKeys, validate |-> validate,
   arrays |-> arrays]

SECTION_NAMES ==
  {"hero", "quickReference", "comparisonTable", "visualChart", "stepByStep",
   "commonMistakes", "equipmentGuide", "scientificBackground",
   "regionalVariations", "recipeExamples", "tips", "faq", "faqs", "related"}

SECTION_STRUCTURES(name) ==
  CASE name = "hero" -> Structure(<<"title">>, "none", NoArrays)
    [] name = "quickReference" ->
         Structure(<<"title", "items">>, "none",
           [NoArrays EXCEPT !.items = ArrayField(3, "none", <<"ingredient">>, TRUE)])
    [] name = "comparisonTable" ->
         Structure(<<"title">>, "comparisonTable",
           [NoArrays EXCEPT !.columns = ArrayField(2, "none", <<>>, FALSE),
                            !.rows = ArrayField(8, "object", <<>>, TRUE)])
    [] name = "visualChart" ->
         Structure(<<"title">>, "none",
           [NoArrays EXCEPT !.items = ArrayField(2, "none", <<"name">>, FALSE)])
    [] name = "stepByStep" ->
         Structure(<<"title", "steps">>, "none",
           [NoArrays EXCEPT !.steps =
              ArrayField(1, "none", <<"number", "title", "content">>, FALSE)])
    [] name = "commonMistakes" ->
         Structure(<<"title">>, "none",
           [NoArrays EXCEPT !.mistakes =
              ArrayField(1, "none", <<"mistake", "consequence", "solution">>, FALSE),
                            !.items = ArrayField(1, "string", <<>>, FALSE)])
    [] name = "equipmentGuide" ->
         Structure(<<"title", "tools">>, "none",
           [NoArrays EXCEPT !.tools =
              ArrayField(1, "none", <<"name", "importance">>, FALSE)])
    [] name = "scientificBackground" ->
         Structure(<<"title">>, "none",
           [NoArrays EXCEPT !.concepts = ArrayField(1, "none", <<"concept">>, FALSE)])
    [] name = "regionalVariations" ->
         Structure(<<"title">>, "none",
           [NoArrays EXCEPT !.regions = ArrayField(1, "none", <<"region">>, FALSE)])
    [] name = "recipeExamples" ->
         Structure(<<"title", "examples">>, "none",
           [NoArrays EXCEPT !.examples = ArrayField(1, "none", <<"recipe">>, FALSE)])
    [] name = "tips" ->
         Structure(<<"title">>, "tips",
           [NoArrays EXCEPT !.tips = ArrayField(1, "string", <<>>, FALSE),
                            !.items = ArrayField(1, "string", <<>>, FALSE)])
    [] name \in {"faq", "faqs"} ->
         Structure(<<"title", "items">>, "none",
           [NoArrays EXCEPT !.items =
              ArrayField(1, "none", <<"question", "answer">>, FALSE)])
    [] name = "related" ->
         Structure(<<"title">>, "related",
           [NoArrays EXCEPT !.links = ArrayField(1, "string", <<>>, FALSE),
                            !.items = ArrayField(1, "string", <<>>, FALSE)])
    \* an inherited property of the table object: truthy, with no schema fields
    [] name \in OBJECT_PROTOTYPE_KEYS -> Structure(<<>>, "none", NoArrays)
    [] OTHER -> [known |-> FALSE]

MinItemsError(path, array, structure) ==
  IF structure.minItems # 0 /\ Len(array.a) < structure.minItems
    THEN << "\"" \o path \o "\" must have at least " \o ToString(structure.minItems)
            \o " items (has " \o ToString(Len(array.a)) \o ")" >>
    ELSE <<>>

Idx(path, i) == path \o "[" \o ToString(i - 1) \o "]"

(* The item rule with ingredient itself counted as a value key *)
quickReferenceItemValidateIngredientCounts(item, i, path) ==
  IF TypeOf(item) # "object" \/ item = Null
    THEN << Idx(path, i) \o " must be an object" >>
  ELSE (IF Get(item, "ingredient") = Undefined
          THEN << Idx(path, i) \o " missing required key: \"ingredient\"" >>
          ELSE <<>>)
       \o (IF \A j \in 1..Len(Keys(item)) : Keys(item)[j] \in {"icon", "tip"}
             THEN << Idx(path, i) \o
                     " must have at least one conversion value (cup, grams, celsius, etc.)" >>
             ELSE <<>>)

(* SECTION_STRUCTURES.quickReference.items.itemStructure.validate *)
quickReferenceItemValidate(item, i, path) ==
  IF TypeOf(item) # "object" \/ item = Null
    THEN << Idx(path, i) \o " must be an object" >>
  ELSE (IF Get(item, "ingredient") = Undefined
          THEN << Idx(path, i) \o " missing required key: \"ingredient\"" >>
          ELSE <<>>)
       \o (IF \A j \in 1..Len(Keys(item)) :
                Keys(item)[j] \in {"ingredient", "icon", "tip"}
             THEN << Idx(path, i) \o
                     " must have at least one conversion value (cup, grams, celsius, etc.)" >>
             ELSE <<>>)

(* The validate callbacks the schema table holds and the validator calls:  *)
(* three section-level ones, named by their section, and the item-level    *)
(* one of quickReference.items.  The shipped callbacks never throw on JSON *)
(* data; a callback in `faulty` stands for a custom one that throws an     *)
(* Error with message FAULT_MESSAGE whenever it is called.                 *)
CALLBACKS == {"comparisonTable", "tips", "related", "quickReference.items"}
FAULT_MESSAGE == "callback failed"

(* array.forEach calls structure.itemStructure.validate outside any try *)
validateQuickReferenceItemsThrows(array, structure) ==
  /\ IsArray(array) /\ Len(array.a) > 0
  /\ structure.validate /\ "quickReference.items" \in faulty

validateQuickReferenceItems(path, array, structure) ==
  IF ~IsArray(array) THEN << "\"" \o path \o "\" must be an array" >>
  ELSE MinItemsError(path, array, structure)
       \o Flatten([i \in 1..Len(array.a) |->
            IF structure.validate THEN quickReferenceItemValidate(array.a[i], i, path)
            ELSE IF TypeOf(array.a[i]) # "object" \/ array.a[i] = Null
              THEN << "\"" \o Idx(path, i) \o "\" must be an object" >>
            ELSE IF Get(array.a[i], "ingredient") = Undefined
              THEN << "\"" \o Idx(path, i) \o "\" missing required key: \"ingredient\"" >>
            ELSE <<>>])

validateFlexibleItemsArray(path, array, structure) ==
  IF ~IsArray(array) THEN << "\"" \o path \o "\" must be an array" >>
  ELSE MinItemsError(path, array, structure)
       \o Flatten([i \in 1..Len(array.a) |->
            IF TypeOf(array.a[i]) # "string"
               /\ (TypeOf(array.a[i]) # "object" \/ array.a[i] = Null)
              THEN << "\"" \o Idx(path, i) \o "\" must be a string or object" >>
              ELSE <<>>])

validateGenericArray(path, array, structure) ==
  IF ~IsArray(array) THEN << "\"" \o path \o "\" must be an array" >>
  ELSE MinItemsError(path, array, structure)
       \o Flatten([i \in 1..Len(array.a) |->
            IF structure.itemType = "object"
              THEN IF TypeOf(array.a[i]) # "object" \/ array.a[i] = Null
                     THEN << "\"" \o Idx(path, i) \o "\" must be an object" >>
                     ELSE Flatten([k \in 1..Len(structure.requiredKeys) |->
                            IF Get(array.a[i], structure.requiredKeys[k]) = Undefined
                              THEN << "\"" \o Idx(path, i) \o "\" missing required key: \""
                                      \o structure.requiredKeys[k] \o "\"" >>
                              ELSE <<>>])
            ELSE IF structure.itemType = "string"
              THEN IF TypeOf(array.a[i]) # "string"
                     THEN << "\"" \o Idx(path, i) \o "\" must be a string (got "
                             \o TypeOf(array.a[i]) \o ")" >>
                     ELSE <<>>
            ELSE <<>>])

validateStringArray(path, array, structure) ==
  IF ~IsArray(array) THEN << "\"" \o path \o "\" must be an array" >>
  ELSE MinItemsError(path, array, structure)
       \o Flatten([i \in 1..Len(array.a) |->
            IF TypeOf(array.a[i]) # "string"
              THEN << "\"" \o Idx(path, i) \o "\" must be a string (got "
                      \o TypeOf(array.a[i]) \o ")" >>
              ELSE <<>>])

validateMistakesArray(path, array, structure) ==
  validateGenericArray(path, array, structure)

(* columns / rows: array typedness and minItems only *)
validateColumnsOrRows(path, array, structure) ==
  IF ~IsArray(array) THEN << "\"" \o path \o "\" must be an array" >>
  ELSE MinItemsError(path, array, structure)

validateNestedStructures(sectionName, sectionData, structure) ==
  LET A == structure.arrays
      On(field) == A[field].present /\ Get(sectionData, field) # Undefined
      P(field) == sectionName \o "." \o field
      D(field) == Get(sectionData, field)
      Generic(field) ==
        IF On(field) THEN validateGenericArray(P(field), D(field), A[field]) ELSE <<>>
  IN (IF On("items")
        THEN IF sectionName = "quickReference"
               THEN validateQuickReferenceItems(P("items"), D("items"), A.items)
             ELSE IF sectionName \in {"tips", "related"}
               THEN validateFlexibleItemsArray(P("items"), D("items"), A.items)
             ELSE validateGenericArray(P("items"), D("items"), A.items)
        ELSE <<>>)
     \o (IF On("tips") THEN validateStringArray(P("tips"), D("tips"), A.tips) ELSE <<>>)
     \o (IF On("links") THEN validateStringArray(P("links"), D("links"), A.links) ELSE <<>>)
     \o (IF On("mistakes")
           THEN validateMistakesArray(P("mistakes"), D("mistakes"), A.mistakes) ELSE <<>>)
     \o Generic("tools") \o Generic("concepts") \o Generic("regions")
     \o Generic("examples") \o Generic("steps")
     \o (IF On("columns")
           THEN validateColumnsOrRows(P("columns"), D("columns"), A.columns) ELSE <<>>)
     \o (IF On("rows") THEN validateColumnsOrRows(P("rows"), D("rows"), A.rows) ELSE <<>>)

(* The callbacks with the tips rule asking for the tips array alone *)
sectionValidateTipsOnly(which, sectionData, sectionName) ==
  LET Has(field) == Truthy(Get(sectionData, field)) /\ IsArray(Get(sectionData, field))
  IN CASE which = "comparisonTable" ->
            (IF Has("columns") /\ ~Has("rows")
               THEN << "\"" \o sectionName \o "\" has columns but no rows" >> ELSE <<>>)
            \o (IF Has("rows") /\ ~Has("columns")
                  THEN << "\"" \o sectionName \o "\" has rows but no columns" >> ELSE <<>>)
       [] which = "tips" ->
            IF ~Has("tips")
              THEN << "\"" \o sectionName \o "\" must have either \"tips\" or \"items\" array" >>
              ELSE <<>>
       [] which = "related" ->
            IF ~Has("links") /\ ~Has("items")
              THEN << "\"" \o sectionName \o "\" must have either \"links\" or \"items\" array" >>
              ELSE <<>>
       [] OTHER -> <<>>

(* The section-level validate callbacks (comparisonTable, tips, related) *)
sectionValidate(which, sectionData, sectionName) ==
  LET Has(field) == Truthy(Get(sectionData, field)) /\ IsArray(Get(sectionData, field))
  IN CASE which = "comparisonTable" ->
            (IF Has("columns") /\ ~Has("rows")
               THEN << "\"" \o sectionName \o "\" has columns but no rows" >> ELSE <<>>)
            \o (IF Has("rows") /\ ~Has("columns")
                  THEN << "\"" \o sectionName \o "\" has rows but no columns" >> ELSE <<>>)
       [] which = "tips" ->
            IF ~Has("tips") /\ ~Has("items")
              THEN << "\"" \o sectionName \o "\" must have either \"tips\" or \"items\" array" >>
              ELSE <<>>
       [] which = "related" ->
            IF ~Has("links") /\ ~Has("items")
              THEN << "\"" \o sectionName \o "\" must have either \"links\" or \"items\" array" >>
              ELSE <<>>
       [] OTHER -> <<>>

(* try { structure.validate(...) } catch (e) { errors.push(...) } *)
tryValidate(structure, sectionData, sectionName) ==
  IF structure.validate \in faulty
    THEN << "Error validating " \o sectionName \o ": " \o FAULT_MESSAGE >>
    ELSE sectionValidate(structure.validate, sectionData,
                         "contentSections." \o sectionName)

(* validateNestedStructures runs after the try block: what the item       *)
(* callback throws leaves validateContentSection.                         *)
validateContentSectionThrows(sectionName, sectionData) ==
  LET structure == SECTION_STRUCTURES(sectionName)
  IN /\ sectionName = "quickReference"
     /\ TypeOf(sectionData) = "object" /\ sectionData # Null
     /\ Get(sectionData, "items") # Undefined
     /\ validateQuickReferenceItemsThrows(Get(sectionData, "items"),
                                          structure.arrays.items)

validateContentSection(sectionName, sectionData) ==
  LET structure == SECTION_STRUCTURES(sectionName)
  IN IF sectionName = "converter" THEN <<>>
     ELSE IF ~structure.known
       THEN << "Unknown section: \"" \o sectionName \o "\" in contentSections" >>
     ELSE IF TypeOf(sectionData) # "object" \/ sectionData = Null
       THEN << "Section \"" \o sectionName \o "\" must be an object" >>
     ELSE Flatten([k \in 1..Len(structure.requiredKeys) |->
            IF Get(sectionData, structure.requiredKeys[k]) = Undefined
              THEN << "contentSections." \o sectionName \o " missing required key: \""
                      \o structure.requiredKeys[k] \o "\"" >>
              ELSE <<>>])
          \o tryValidate(structure, sectionData, sectionName)
          \o validateNestedStructures(sectionName, sectionData, structure)

-----------------------------------------------------------------------------
(* Record validator *)

SPECIAL_SECTIONS == <<"converter", "faq", "faqs">>

TOP_LEVEL_REQUIRED_KEYS ==
  <<"id", "slug", "title", "description", "keywords", "categories",
    "manualRelatedLinks", "featured", "contentSequence", "defaults",
    "supportedUnits", "faqs", "contentSections">>

TOP_LEVEL_OPTIONAL_KEYS == <<"conversions", "conversionFormulas", "ingredientFormulas">>

ALL_TOP_LEVEL_KEYS == TOP_LEVEL_REQUIRED_KEYS \o TOP_LEVEL_OPTIONAL_KEYS

WORD_MINIMUM == 1000

(* x === "name" for a JSON value x *)
IsString(v, name) == TypeOf(v) = "string" /\ ToJSString(v) = name

hasConversions(converter) ==
  /\ Truthy(Get(converter, "conversions"))
  /\ TypeOf(Get(converter, "conversions")) = "object"

hasConversionFormulas(converter) ==
  /\ Truthy(Get(converter, "conversionFormulas"))
  /\ IsArray(Get(converter, "conversionFormulas"))

(* 1. required top-level keys *)
RequiredKeyErrors(converter) ==
  Flatten([k \in 1..Len(TOP_LEVEL_REQUIRED_KEYS) |->
    IF Get(converter, TOP_LEVEL_REQUIRED_KEYS[k]) = Undefined
      THEN << "Missing required field: \"" \o TOP_LEVEL_REQUIRED_KEYS[k] \o "\"" >>
      ELSE <<>>])

(* 2. additional top-level keys: warnings only *)
AdditionalKeyWarnings(converter) ==
  Flatten([k \in 1..Len(Keys(converter)) |->
    IF ~Includes(ALL_TOP_LEVEL_KEYS, Keys(converter)[k])
      THEN << ToJSString(Get(converter, "id")) \o ": Additional key \""
              \o Keys(converter)[k] \o "\" found (allowed but not in template)" >>
      ELSE <<>>])

(* 3. conversions / conversionFormulas *)
ConversionDataErrors(converter) ==
  IF ~hasConversions(converter) /\ ~hasConversionFormulas(converter)
    THEN << "Must have either \"conversions\" object or \"conversionFormulas\" array" >>
    ELSE <<>>

BothConversionsWarnings(converter) ==
  IF hasConversions(converter) /\ hasConversionFormulas(converter)
    THEN << ToJSString(Get(converter, "id"))
            \o ": Has both \"conversions\" and \"conversionFormulas\" - using \"conversions\"" >>
    ELSE <<>>

(* 4. array typedness *)
ARRAY_FIELDS ==
  <<"keywords", "categories", "manualRelatedLinks", "supportedUnits",
    "conversionFormulas", "ingredientFormulas", "faqs">>

ArrayTypeErrors(converter) ==
  Flatten([k \in 1..Len(ARRAY_FIELDS) |->
    IF Truthy(Get(converter, ARRAY_FIELDS[k])) /\ ~IsArray(Get(converter, ARRAY_FIELDS[k]))
      THEN << "\"" \o ARRAY_FIELDS[k] \o "\" must be an array" >>
      ELSE <<>>])

(* 5. featured *)
FeaturedErrors(converter) ==
  IF Get(converter, "featured") # Undefined
     /\ TypeOf(Get(converter, "featured")) # "boolean"
    THEN << "\"featured\" must be a boolean" >>
    ELSE <<>>

(* 6. contentSequence *)
ContentSequenceErrors(converter) ==
  LET cs == Get(converter, "contentSequence")
  IN IF ~Truthy(cs) \/ ~IsArray(cs) THEN << "\"contentSequence\" must be an array" >>
     ELSE IF Len(cs.a) = 0 THEN << "\"contentSequence\" cannot be empty" >>
     ELSE IF ~\E i \in 1..Len(cs.a) : IsString(cs.a[i], "hero")
       THEN << "\"contentSequence\" must include \"hero\" section" >>
     ELSE <<>>

(* 7. contentSections.  converter.contentSequence.forEach is called whenever *)
(* contentSequence is truthy: on a non-array it is a TypeError.              *)
ContentSectionsThrows(converter) ==
  LET sections == Get(converter, "contentSections")
      cs == Get(converter, "contentSequence")
  IN /\ Truthy(sections) /\ TypeOf(sections) = "object"
     /\ \/ Truthy(cs) /\ ~IsArray(cs)
        \/ \E i \in 1..Len(Entries(sections)) :
              validateContentSectionThrows(Entries(sections)[i].k,
                                           Entries(sections)[i].v)

ContentSectionsErrors(converter) ==
  LET sections == Get(converter, "contentSections")
      cs == Get(converter, "contentSequence")
  IN IF ~Truthy(sections) \/ TypeOf(sections) # "object"
       THEN << "\"contentSections\" must be an object" >>
     ELSE (IF Truthy(cs)
             THEN Flatten([i \in 1..Len(cs.a) |->
                    IF \E j \in 1..Len(SPECIAL_SECTIONS) :
                         IsString(cs.a[i], SPECIAL_SECTIONS[j])
                      THEN <<>>
                    ELSE IF ~Truthy(Get(sections, ToJSString(cs.a[i])))
                      THEN << "Section \"" \o ToJSString(cs.a[i])
                              \o "\" in contentSequence not found in contentSections" >>
                    ELSE <<>>])
             ELSE <<>>)
          \o Flatten([i \in 1..Len(Entries(sections)) |->
               validateContentSection(Entries(sections)[i].k, Entries(sections)[i].v)])

(* 8. defaults *)
DefaultsErrors(converter) ==
  LET defaults == Get(converter, "defaults")
      defaultsRequired == <<"value", "from", "to">>
  IN IF ~Truthy(defaults) THEN << "Missing required field: \"defaults\"" >>
     ELSE IF TypeOf(defaults) # "object" THEN << "\"defaults\" must be an object" >>
     ELSE Flatten([k \in 1..Len(defaultsRequired) |->
            IF Get(defaults, defaultsRequired[k]) = Undefined
              THEN << "\"defaults." \o defaultsRequired[k] \o "\" is required" >>
              ELSE <<>>])

(* 9. supportedUnits and the conversion matrix *)
UnitName(supportedUnits, i) == ToJSString(supportedUnits[i])

(* supportedUnits.forEach(unit => { if (!conversions[unit]) ... }) *)
MissingEntryErrors(supportedUnits, conversions) ==
  Flatten([i \in 1..Len(supportedUnits) |->
    IF ~Truthy(Get(conversions, UnitName(supportedUnits, i)))
      THEN << "Missing conversion entry for unit: \"" \o UnitName(supportedUnits, i) \o "\"" >>
      ELSE <<>>])

(* The sweep leaving out the pairs from = to *)
MissingPairErrorsOffDiagonal(supportedUnits, conversions) ==
  Flatten([i \in 1..Len(supportedUnits) |-> Flatten([j \in 1..Len(supportedUnits) |->
    LET row == Get(conversions, UnitName(supportedUnits, i))
    IN IF i # j /\ Truthy(row) /\ Get(row, UnitName(supportedUnits, j)) = Undefined
         THEN << "Missing conversion: \"" \o UnitName(supportedUnits, i)
                 \o "\" -> \"" \o UnitName(supportedUnits, j) \o "\"" >>
         ELSE <<>>])])

(* The nested forEach over (fromUnit, toUnit); the arrow of the message is  *)
(* written -> here.                                                         *)
MissingPairErrors(supportedUnits, conversions) ==
  Flatten([i \in 1..Len(supportedUnits) |-> Flatten([j \in 1..Len(supportedUnits) |->
    LET row == Get(conversions, UnitName(supportedUnits, i))
    IN IF Truthy(row) /\ Get(row, UnitName(supportedUnits, j)) = Undefined
         THEN << "Missing conversion: \"" \o UnitName(supportedUnits, i)
                 \o "\" -> \"" \o UnitName(supportedUnits, j) \o "\"" >>
         ELSE <<>>])])

(* The self-conversion test with != in place of !==: the string "1" and    *)
(* true compare equal to 1.                                                 *)
SelfConversionErrorsLoose(supportedUnits, conversions) ==
  Flatten([i \in 1..Len(supportedUnits) |->
    LET row == Get(conversions, UnitName(supportedUnits, i))
        self == Get(row, UnitName(supportedUnits, i))
    IN IF Truthy(row) /\ self \notin {Num("1"), S("1"), Bool(TRUE)}
         THEN << "Self-conversion for \"" \o UnitName(supportedUnits, i)
                 \o "\" must be 1 (got: " \o ToJSString(self) \o ")" >>
         ELSE <<>>])

(* conversions[unit] && conversions[unit][unit] !== 1 *)
SelfConversionErrors(supportedUnits, conversions) ==
  Flatten([i \in 1..Len(supportedUnits) |->
    LET row == Get(conversions, UnitName(supportedUnits, i))
        self == Get(row, UnitName(supportedUnits, i))
    IN IF Truthy(row) /\ self # Num("1")
         THEN << "Self-conversion for \"" \o UnitName(supportedUnits, i)
                 \o "\" must be 1 (got: " \o ToJSString(self) \o ")" >>
         ELSE <<>>])

validateConversionMatrix(converter) ==
  LET su == Get(converter, "supportedUnits")
      supportedUnits == IF Truthy(su) THEN su.a ELSE <<>>
      conversions == IF Truthy(Get(converter, "conversions"))
                       THEN Get(converter, "conversions") ELSE Obj(<<>>)
  IN IF Len(supportedUnits) = 0 THEN <<>>
     ELSE MissingEntryErrors(supportedUnits, conversions)
          \o MissingPairErrors(supportedUnits, conversions)
          \o SelfConversionErrors(supportedUnits, conversions)

(* The matrix check skipped as soon as conversionFormulas is there too *)
SupportedUnitsErrorsFormulasFirst(converter) ==
  LET su == Get(converter, "supportedUnits")
  IN IF ~Truthy(su) \/ ~IsArray(su) THEN << "\"supportedUnits\" must be an array" >>
     ELSE IF Len(su.a) = 0 THEN << "\"supportedUnits\" cannot be empty" >>
     ELSE IF hasConversions(converter) /\ ~hasConversionFormulas(converter)
       THEN validateConversionMatrix(converter)
     ELSE <<>>

SupportedUnitsErrors(converter) ==
  LET su == Get(converter, "supportedUnits")
  IN IF ~Truthy(su) \/ ~IsArray(su) THEN << "\"supportedUnits\" must be an array" >>
     ELSE IF Len(su.a) = 0 THEN << "\"supportedUnits\" cannot be empty" >>
     ELSE IF hasConversions(converter) THEN validateConversionMatrix(converter)
     ELSE <<>>

(* 10. top-level faqs.  faq.question on a null element is a TypeError. *)
validateTopLevelFAQsThrows(faqsArray) ==
  /\ IsArray(faqsArray)
  /\ \E i \in 1..Len(faqsArray.a) : faqsArray.a[i] = Null

validateTopLevelFAQs(faqsArray) ==
  IF ~IsArray(faqsArray) THEN << "\"faqs\" must be an array" >>
  ELSE IF Len(faqsArray.a) = 0 THEN << "\"faqs\" array cannot be empty" >>
  ELSE Flatten([i \in 1..Len(faqsArray.a) |->
         (IF ~Truthy(Get(faqsArray.a[i], "question"))
            THEN << "\"faqs\"[" \o ToString(i - 1) \o "] missing required field: \"question\"" >>
            ELSE <<>>)
         \o (IF ~Truthy(Get(faqsArray.a[i], "answer"))
               THEN << "\"faqs\"[" \o ToString(i - 1) \o "] missing required field: \"answer\"" >>
               ELSE <<>>)])

FaqsThrows(converter) ==
  Truthy(Get(converter, "faqs")) /\ validateTopLevelFAQsThrows(Get(converter, "faqs"))

FaqsErrors(converter) ==
  IF Truthy(Get(converter, "faqs"))
    THEN validateTopLevelFAQs(Get(converter, "faqs")) ELSE <<>>

(* The gate with <= in place of < *)
WordCountErrorsInclusive(wordCount) ==
  IF wordCount <= WORD_MINIMUM
    THEN << "Low content volume: Only " \o ToString(wordCount)
            \o " words (minimum 1000 words required)" >>
    ELSE <<>>

(* 11. word-count gate *)
WordCountErrors(wordCount) ==
  IF wordCount < WORD_MINIMUM
    THEN << "Low content volume: Only " \o ToString(wordCount)
            \o " words (minimum 1000 words required)" >>
    ELSE <<>>

(* Result of one validateSingleConverter call: the returned error list, or  *)
(* thrown = TRUE when a TypeError escapes; warnings are the strings pushed   *)
(* to this.warnings before the call ended; checks counts the ten checks     *)
(* that ran to completion; counted tells whether this.wordCounts was set.   *)
Thrown(warns, checksDone) ==
  [thrown |-> TRUE, errors |-> <<>>, warnings |-> warns, checks |-> checksDone,
   counted |-> FALSE, wordCount |-> 0]

validateSingleConverter(converter) ==
  LET warns == AdditionalKeyWarnings(converter) \o BothConversionsWarnings(converter)
  IN IF converter = Null THEN Thrown(<<>>, 0)
     ELSE IF ContentSectionsThrows(converter) THEN Thrown(warns, 5)
     ELSE IF FaqsThrows(converter) THEN Thrown(warns, 8)
     ELSE [thrown |-> FALSE,
           errors |-> RequiredKeyErrors(converter)
                      \o ConversionDataErrors(converter)
                      \o ArrayTypeErrors(converter)
                      \o FeaturedErrors(converter)
                      \o ContentSequenceErrors(converter)
                      \o ContentSectionsErrors(converter)
                      \o DefaultsErrors(converter)
                      \o SupportedUnitsErrors(converter)
                      \o FaqsErrors(converter)
                      \o WordCountErrors(calculateWordCount(converter)),
           warnings |-> warns,
           checks |-> 10,
           counted |-> TRUE,
           wordCount |-> calculateWordCount(converter)]

-----------------------------------------------------------------------------
(* Collection validator *)

(* The placeholder numbered like the progress line, from one *)
ConverterIdOneBased(converter, index) ==
  IF Truthy(Get(converter, "id")) THEN Get(converter, "id")
  ELSE S("converter-" \o ToString(index + 1))

(* converter.id || `converter-${index}` *)
ConverterId(converter, index) ==
  IF Truthy(Get(converter, "id")) THEN Get(converter, "id")
  ELSE S("converter-" \o ToString(index))

(* The iteration with a record counted as failed as soon as it drew a     *)
(* warning.                                                                *)
recordFailingOnWarnings(st, converter, index, r) ==
  LET seen == [thrown |-> r.thrown, errors |-> r.errors, checks |-> r.checks,
               counted |-> r.counted, wordCount |-> r.wordCount]
  IN IF r.thrown
       THEN [st EXCEPT !.thrown = TRUE,
                       !.warnings = @ \o r.warnings,
                       !.results = Append(@, seen)]
       ELSE [st EXCEPT !.warnings = @ \o r.warnings,
                       !.wordCounts =
                          SetEntry(@, ToJSString(Get(converter, "id")), r.wordCount),
                       !.failedIds =
                          IF r.errors = <<>> /\ r.warnings = <<>> THEN @
                          ELSE Append(@, ConverterId(converter, index)),
                       !.results = Append(@, seen)]

(* One iteration of the forEach of validateConverters on accumulator st.  *)
(* Reading converter.id of a null record is a TypeError before the record  *)
(* validator is entered.                                                   *)
record(st, converter, index, r) ==
  LET seen == [thrown |-> r.thrown, errors |-> r.errors, checks |-> r.checks,
               counted |-> r.counted, wordCount |-> r.wordCount]
  IN IF r.thrown
       THEN [st EXCEPT !.thrown = TRUE,
                       !.warnings = @ \o r.warnings,
                       !.results = Append(@, seen)]
       ELSE [st EXCEPT !.warnings = @ \o r.warnings,
                       !.wordCounts =
                          SetEntry(@, ToJSString(Get(converter, "id")), r.wordCount),
                       !.failedIds =
                          IF r.errors = <<>> THEN @
                          ELSE Append(@, ConverterId(converter, index)),
                       !.results = Append(@, seen)]

validateOne(st, converter, index) ==
  record(st, converter, index, validateSingleConverter(converter))

RECURSIVE forEach(_, _, _)
forEach(st, list, i) ==
  IF i > Len(list) \/ st.thrown THEN st
  ELSE forEach(validateOne(st, list[i], i - 1), list, i + 1)

(* A printSummary that only prints *)
printSummaryOnlyPrints(ids) == FALSE

(* printSummary ends the process with exit code 1 when a record failed *)
printSummaryExits(ids) == Len(ids) > 0

NoReport == [isValid |-> FALSE, total |-> -1, valid |-> -1, failed |-> -1,
             failedIds |-> <<>>, wordCounts |-> <<>>]

Report(list, ids, counts) ==
  [isValid |-> Len(ids) = 0,
   total |-> Len(list),
   valid |-> Len(list) - Len(ids),
   failed |-> Len(ids),
   failedIds |-> ids,
   wordCounts |-> counts]

(* The whole call validateConverters(list) on the instance.  outcome.kind:  *)
(* "returned" (a report went back to the caller), "exit" (process.exit(1)   *)
(* inside printSummary), "throw" (a TypeError left the call; uncaught, it   *)
(* ends the run, and the CLI wrapper turns it into exit code 1).            *)
validateConverters(list) ==
  \E st \in {forEach([failedIds |-> failedIds, wordCounts |-> wordCounts,
                      warnings |-> warnings, results |-> <<>>, thrown |-> FALSE],
                     list, 1)} :
     /\ converters' = list
     /\ failedIds' = st.failedIds
     /\ wordCounts' = st.wordCounts
     /\ warnings' = st.warnings
     /\ calls' = calls + 1
     /\ outcome' =
          [kind |-> IF st.thrown THEN "throw"
                    ELSE IF printSummaryExits(st.failedIds) THEN "exit"
                    ELSE "returned",
           results |-> st.results,
           summary |-> ~st.thrown,
           report |-> IF st.thrown \/ printSummaryExits(st.failedIds) THEN NoReport
                      ELSE Report(list, st.failedIds, st.wordCounts)]

-----------------------------------------------------------------------------
(* Inputs *)

MaxRecords == 2
MaxCalls == 2
MaxOverrides == 2

(* n >= 1 words separated by single spaces: "w w ... w" *)
Filler(n) == Str(<<Rep(<<"w", " ">>, n - 1), Rep(<<"w">>, 1)>>)

(* obj with key set to value (appended when new), or removed for Undefined *)
RECURSIVE Without(_, _)
Without(entries, key) ==
  IF entries = <<>> THEN <<>>
  ELSE IF Head(entries).k = key THEN Without(Tail(entries), key)
  ELSE <<Head(entries)>> \o Without(Tail(entries), key)

With(obj, key, value) ==
  IF value = Undefined THEN Obj(Without(obj.o, key))
  ELSE Obj(SetEntry(obj.o, key, value))

(* A record that satisfies every rule: 1000 words in description, 1004 in all *)
BaseRecord ==
  Obj(<< KV("id", S("a")),
         KV("slug", S("a-to-b")),
         KV("title", S("T")),
         KV("description", Filler(WORD_MINIMUM)),
         KV("keywords", Arr(<<S("k")>>)),
         KV("categories", Arr(<<S("c")>>)),
         KV("manualRelatedLinks", Arr(<<>>)),
         KV("featured", Bool(FALSE)),
         KV("contentSequence", Arr(<<S("hero")>>)),
         KV("defaults", Obj(<<KV("value", Num("1")), KV("from", S("g")), KV("to", S("g"))>>)),
         KV("supportedUnits", Arr(<<S("g")>>)),
         KV("faqs", Arr(<<Obj(<<KV("question", S("Q?")), KV("answer", S("A."))>>)>>)),
         KV("contentSections", Obj(<<KV("hero", Obj(<<KV("title", S("T"))>>))>>)),
         KV("conversions", Obj(<<KV("g", Obj(<<KV("g", Num("1"))>>))>>)) >>)

(* The records of the collection-level specification: two valid records,   *)
(* a failing record sharing the id of the first, a record without id, a    *)
(* failing record whose id is the empty string, and a null element.         *)
RecordA == BaseRecord
RecordB == With(BaseRecord, "id", S("b"))
RecordShort == With(BaseRecord, "description", Filler(WORD_MINIMUM - 5))
RecordNoId == With(BaseRecord, "id", Undefined)
RecordEmptyId == With(RecordShort, "id", EmptyString)

SmallRecords == {RecordA, RecordB, RecordShort, RecordNoId, RecordEmptyId, Null}

InputArrays == UNION {[1..n -> SmallRecords] : n \in 0..MaxRecords}

(* Record-level inputs: BaseRecord with up to MaxOverrides fields replaced  *)
(* (Undefined removes the field).                                           *)
HeroSection == Obj(<<KV("title", S("T"))>>)

Overrides ==
  { KV("id", Undefined), KV("id", EmptyString),
    KV("title", Undefined),
    KV("description", Undefined),
    KV("description", Filler(WORD_MINIMUM - 5)),
    KV("description", Filler(WORD_MINIMUM - 4)),
    KV("keywords", S("x")), KV("keywords", Null),
    KV("featured", Undefined), KV("featured", S("yes")),
    KV("contentSequence", Undefined), KV("contentSequence", Null),
    KV("contentSequence", EmptyString),
    KV("contentSequence", Arr(<<>>)),
    KV("contentSequence", Arr(<<S("faq")>>)),
    KV("contentSequence", Arr(<<S("hero"), S("faq")>>)),
    KV("contentSequence", Arr(<<S("quickReference"), S("hero")>>)),
    KV("contentSequence", S("hero")),
    KV("contentSequence", Num("5")),
    KV("contentSequence", Obj(<<KV("0", S("hero"))>>)),
    KV("contentSections", Undefined), KV("contentSections", Null),
    KV("contentSections", S("x")),
    KV("contentSections", Obj(<<>>)),
    KV("contentSections", Obj(<<KV("hero", Obj(<<>>))>>)),
    KV("contentSections", Obj(<<KV("hero", HeroSection), KV("madeUpSection", Obj(<<>>))>>)),
    KV("defaults", Undefined), KV("defaults", Null), KV("defaults", S("x")),
    KV("defaults", Obj(<<KV("value", Num("1")), KV("to", S("g"))>>)),
    KV("supportedUnits", Undefined), KV("supportedUnits", Arr(<<>>)),
    KV("supportedUnits", S("g")),
    KV("supportedUnits", Arr(<<S("g"), S("kg")>>)),
    KV("conversions", Undefined), KV("conversions", S("x")),
    KV("conversions", Obj(<<KV("g", Obj(<<KV("g", Num("2"))>>))>>)),
    KV("conversionFormulas", Arr(<<>>)), KV("conversionFormulas", S("x")),
    KV("faqs", Undefined), KV("faqs", Null), KV("faqs", S("x")),
    KV("faqs", Arr(<<>>)), KV("faqs", Arr(<<Null>>)),
    KV("faqs", Arr(<<Obj(<<KV("question", S("Q?"))>>)>>)),
    KV("extra", Num("1")) }

RECURSIVE ApplyOverrides(_, _)
ApplyOverrides(obj, ovs) ==
  IF ovs = <<>> THEN obj
  ELSE ApplyOverrides(With(obj, Head(ovs).k, Head(ovs).v), Tail(ovs))

OverrideLists == UNION {[1..n -> Overrides] : n \in 0..MaxOverrides}

(* Matrix-level inputs: BaseRecord with supportedUnits a list over a, b, c  *)
(* and conversions built cell by cell.                                      *)
UNITS == <<"a", "b", "c">>

UnitLists == {<<"a">>, <<"a", "b">>, <<"a", "b", "c">>, <<"b", "b">>}

SelfValues ==
  {Undefined, Num("1"), Num("2"), Num("0.999999"), S("1"), Bool(TRUE), Null}

(* cell[<<from, to>>] is the value of conversions[from][to] or Undefined;  *)
(* a row without cells is absent, or an empty object when emptyRows.       *)
OffPairs == {p \in (1..3) \X (1..3) : p[1] # p[2]}

Cells ==
  { [p \in (1..3) \X (1..3) |->
       IF p = <<1, 1>> THEN da
       ELSE IF p = <<2, 2>> THEN db
       ELSE IF p = <<3, 3>> THEN dc
       ELSE IF p \in off THEN Num("2") ELSE Undefined] :
     da \in SelfValues, db \in {Undefined, Num("1")}, dc \in {Undefined, Num("1")},
     off \in SUBSET OffPairs }

RowOf(c, i) ==
  Obj(Flatten([j \in 1..3 |->
        IF c[<<i, j>>] = Undefined THEN <<>> ELSE <<KV(UNITS[j], c[<<i, j>>])>>]))

Matrix(c, emptyRows) ==
  Obj(Flatten([i \in 1..3 |->
        IF RowOf(c, i).o = <<>> /\ ~emptyRows THEN <<>>
        ELSE <<KV(UNITS[i], RowOf(c, i))>>]))

MatrixRecord(units, c, emptyRows) ==
  With(With(BaseRecord, "supportedUnits", Arr([i \in 1..Len(units) |-> S(units[i])])),
       "conversions", Matrix(c, emptyRows))

-----------------------------------------------------------------------------
(* The validator instance *)

NoOutcome == [kind |-> "none", results |-> <<>>, summary |-> FALSE, report |-> NoReport]

(* No converter page generated *)
NoPage == [converted |-> FALSE]

(* No command-line run: the class is used through require() *)
NoCli ==
  [args |-> <<>>, file |-> [kind |-> "none", data |-> Undefined], fatal |-> "none",
   exitCode |-> -1]

(* new RealisticConverterValidator() *)
Init ==
  /\ converters = <<>>
  /\ failedIds = <<>>
  /\ wordCounts = <<>>
  /\ warnings = <<>>
  /\ outcome = NoOutcome
  /\ calls = 0
  /\ faulty = {}
  /\ cli = NoCli
  /\ page = NoPage

(* A caller may call again after a returned report; process.exit and an    *)
(* uncaught TypeError end the run.                                          *)
Alive == outcome.kind \in {"none", "returned"}

(* A caller passes a records array to the instance *)
Call ==
  /\ Alive
  /\ calls < MaxCalls
  /\ \E list \in InputArrays : validateConverters(list)
  /\ UNCHANGED <<faulty, cli, page>>

Next == Call

Spec == Init /\ [][Next]_vars

(* One record, varied field by field, validated on a fresh instance *)
CallRecord ==
  /\ calls = 0
  /\ \E ovs \in OverrideLists : validateConverters(<<ApplyOverrides(BaseRecord, ovs)>>)
  /\ UNCHANGED <<faulty, cli, page>>

SpecRecord == Init /\ [][CallRecord]_vars

(* One record, its conversion matrix varied, validated on a fresh instance *)
CallMatrix ==
  /\ calls = 0
  /\ \E units \in UnitLists, c \in Cells, emptyRows \in BOOLEAN :
        validateConverters(<<MatrixRecord(units, c, emptyRows)>>)
  /\ UNCHANGED <<faulty, cli, page>>

SpecMatrix == Init /\ [][CallMatrix]_vars

-----------------------------------------------------------------------------
(* Properties *)

Results == outcome.results
Reached == 1..Len(Results)
Completed == outcome.kind \in {"returned", "exit"}
ErrorSet(i) == SeqToSet(Results[i].errors)
Count(q, x) == Cardinality({k \in 1..Len(q) : q[k] = x})
IsSubSeqSet(q, i) == SeqToSet(q) \subseteq ErrorSet(i)

(* C1: accumulation, no short-circuit: for every record handed to the record *)
(* validator all ten checks run to completion and the returned error list    *)
(* holds the errors of every check.                                          *)
C1_AllTenChecksAccumulate ==
  \A i \in Reached :
    /\ ~Results[i].thrown
    /\ Results[i].checks = 10
    /\ IsSubSeqSet(RequiredKeyErrors(converters[i]), i)
    /\ IsSubSeqSet(ConversionDataErrors(converters[i]), i)
    /\ IsSubSeqSet(ArrayTypeErrors(converters[i]), i)
    /\ IsSubSeqSet(FeaturedErrors(converters[i]), i)
    /\ IsSubSeqSet(ContentSequenceErrors(converters[i]), i)
    /\ IsSubSeqSet(ContentSectionsErrors(converters[i]), i)
    /\ IsSubSeqSet(DefaultsErrors(converters[i]), i)
    /\ IsSubSeqSet(SupportedUnitsErrors(converters[i]), i)
    /\ IsSubSeqSet(FaqsErrors(converters[i]), i)
    /\ IsSubSeqSet(WordCountErrors(calculateWordCount(converters[i])), i)

(* C2: nothing is thrown past the per-record boundary: whatever JSON values  *)
(* the records hold, every record of the array ends with an error list and   *)
(* every later record is still validated.                                    *)
C2_NothingThrownPastRecord ==
  calls > 0 =>
    /\ outcome.kind # "throw"
    /\ Len(Results) = Len(converters)
    /\ \A i \in Reached : ~Results[i].thrown

(* C3: validateConverters returns a report to its caller for every records   *)
(* array, also when records fail, without terminating the process.           *)
C3_ReportReturnedForEveryArray ==
  (calls > 0 /\ outcome.kind # "throw") =>
    /\ outcome.kind = "returned"
    /\ outcome.report.total = Len(converters)
    /\ outcome.report.failedIds = failedIds

(* C4: every returned report has total = number of input records, failed =   *)
(* length of failedIds, valid = total - failed, isValid = (failed = 0) and    *)
(* 0 <= valid <= total, on a fresh instance and after earlier calls.          *)
C4_ReportArithmetic ==
  outcome.kind = "returned" =>
    /\ outcome.report.total = Len(converters)
    /\ outcome.report.failed = Len(outcome.report.failedIds)
    /\ outcome.report.valid = outcome.report.total - outcome.report.failed
    /\ outcome.report.isValid = (outcome.report.failed = 0)
    /\ 0 <= outcome.report.valid
    /\ outcome.report.valid <= outcome.report.total

C4_Witness ==
  /\ outcome.kind = "returned"
  /\ calls = 2
  /\ Len(converters) = 2
  /\ Len(wordCounts) = 2

(* The records of the latest call whose error list is non-empty *)
FailingIdx == {i \in Reached : ~Results[i].thrown /\ Results[i].errors # <<>>}

ExpectedFailedIds(entry(_)) ==
  Flatten([i \in 1..Len(Results) |-> IF i \in FailingIdx THEN <<entry(i)>> ELSE <<>>])

Placeholder(i) == S("converter-" \o ToString(i - 1))

IdOrPlaceholderWhenAbsent(i) ==
  IF Get(converters[i], "id") = Undefined THEN Placeholder(i) ELSE Get(converters[i], "id")

IdOrPlaceholderWhenFalsy(i) ==
  IF Truthy(Get(converters[i], "id")) THEN Get(converters[i], "id") ELSE Placeholder(i)

(* C5 as stated: after a call on a fresh instance failedIds lists exactly the *)
(* records with a non-empty error list, once each, in input order, each entry *)
(* the record's id, or converter-<index> when the record has no id.           *)
C5_FailedIdsAsStated ==
  calls = 1 => failedIds = ExpectedFailedIds(IdOrPlaceholderWhenAbsent)

(* C5 amended: the same, with the placeholder used whenever the id is absent  *)
(* or falsy (an empty string id is replaced by the placeholder too).          *)
C5_FailedIdsInInputOrder ==
  calls = 1 => failedIds = ExpectedFailedIds(IdOrPlaceholderWhenFalsy)

C5_Witness ==
  /\ calls = 1
  /\ outcome.kind = "exit"
  /\ converters = <<RecordNoId, RecordEmptyId>>
  /\ failedIds = <<S("converter-0"), S("converter-1")>>

(* C6: after a call on a fresh instance wordCounts holds one entry per input  *)
(* record, keyed by the record's id and mapping to that record's word count,  *)
(* also for records without an id and records sharing an id.                  *)
C6_OneWordCountPerRecord ==
  (calls = 1 /\ Completed) =>
    /\ Len(wordCounts) = Len(converters)
    /\ \A i \in Reached :
         Get(Obj(wordCounts), ToJSString(Get(converters[i], "id")))
           = Results[i].wordCount

-----------------------------------------------------------------------------
(* Conversion matrix properties (SpecMatrix) *)

MissingMsg(from, to) == "Missing conversion: \"" \o from \o "\" -> \"" \o to \o "\""
EntryMsg(u) == "Missing conversion entry for unit: \"" \o u \o "\""
SelfMsg(u, v) ==
  "Self-conversion for \"" \o u \o "\" must be 1 (got: " \o ToJSString(v) \o ")"

UnitNames == SeqToSet(UNITS)
AllMissingMsgs == {MissingMsg(u, v) : u, v \in UnitNames}
AllSelfMsgs(u) == {SelfMsg(u, v) : v \in SelfValues}

InputUnits == Get(converters[1], "supportedUnits").a
InputUnitNames == {ToJSString(InputUnits[i]) : i \in 1..Len(InputUnits)}
InputConversions == Get(converters[1], "conversions")
Cell(u, v) == Get(Get(InputConversions, u), v)
HasRow(u) == Truthy(Get(InputConversions, u))
DistinctUnits == Cardinality(InputUnitNames) = Len(InputUnits)
MatrixRun == calls = 1 /\ Len(Results) = 1 /\ ~Results[1].thrown
MissingErrors == ErrorSet(1) \cap AllMissingMsgs

PairErrors(u) == ErrorSet(1) \cap (AllSelfMsgs(u) \cup {MissingMsg(u, u)})

C8_SelfConversionExactness ==
  MatrixRun =>
    /\ \A i \in 1..Len(InputUnits) :
         LET u == ToJSString(InputUnits[i])
         IN HasRow(u) =>
              /\ Cell(u, u) = Num("1") => PairErrors(u) = {}
              /\ Cell(u, u) \notin {Num("1"), Undefined} =>
                   /\ PairErrors(u) = {SelfMsg(u, Cell(u, u))}
                   /\ Count(Results[1].errors, SelfMsg(u, Cell(u, u)))
                        = Count(InputUnits, InputUnits[i])
    /\ (/\ InputUnits = <<S("a")>>
        /\ Keys(InputConversions) = <<"a">>
        /\ Cell("a", "a") \notin {Num("1"), Undefined})
         => Len(Results[1].errors) = 1

C8_Witness ==
  /\ MatrixRun
  /\ InputUnits = <<S("a")>>
  /\ InputConversions = Obj(<<KV("a", Obj(<<KV("a", Num("0.999999"))>>))>>)
  /\ Results[1].errors = <<SelfMsg("a", Num("0.999999"))>>

-----------------------------------------------------------------------------
(* Record-level properties (SpecRecord) *)

Present(c, key) == Get(c, key) # Undefined

(* The record of the end-to-end example *)
EndToEndShape(c) ==
  /\ c # Null
  /\ \A k \in 1..Len(TOP_LEVEL_REQUIRED_KEYS) : Present(c, TOP_LEVEL_REQUIRED_KEYS[k])
  /\ Get(c, "contentSequence") = Arr(<<S("hero")>>)
  /\ Get(c, "contentSections") = Obj(<<KV("hero", Obj(<<KV("title", S("T"))>>))>>)
  /\ Get(c, "supportedUnits") = Arr(<<S("g")>>)
  /\ Get(c, "conversions") = Obj(<<KV("g", Obj(<<KV("g", Num("1"))>>))>>)
  /\ countWords(Get(c, "description")) >= WORD_MINIMUM

WellTypedFields(c) ==
  /\ \A key \in {"keywords", "categories", "manualRelatedLinks"} : IsArray(Get(c, key))
  /\ \A key \in {"conversionFormulas", "ingredientFormulas"} :
       Present(c, key) => IsArray(Get(c, key))
  /\ TypeOf(Get(c, "featured")) = "boolean"
  /\ Get(c, "defaults").type = "object"
  /\ \A key \in {"value", "from", "to"} : Present(Get(c, "defaults"), key)
  /\ IsArray(Get(c, "faqs"))
  /\ Len(Get(c, "faqs").a) > 0
  /\ \A k \in 1..Len(Get(c, "faqs").a) :
       /\ Get(c, "faqs").a[k] # Null
       /\ Truthy(Get(Get(c, "faqs").a[k], "question"))
       /\ Truthy(Get(Get(c, "faqs").a[k], "answer"))

(* C9 as stated: every record with the thirteen required keys present, the    *)
(* example's contentSequence, contentSections, supportedUnits and conversions *)
(* and at least 1000 words in description gets an empty error list, and a     *)
(* collection of such records a report with isValid = true.                   *)
C9_EndToEndAsStated ==
  /\ \A i \in Reached :
       EndToEndShape(converters[i]) => (~Results[i].thrown /\ Results[i].errors = <<>>)
  /\ (calls = 1 /\ \A i \in 1..Len(converters) : EndToEndShape(converters[i]))
       => (outcome.kind = "returned" /\ outcome.report.isValid)

(* C9 amended: the same for records whose required fields are also well      *)
(* typed: keywords, categories, manualRelatedLinks arrays, featured a         *)
(* boolean, defaults an object with value, from and to, faqs a non-empty      *)
(* array of entries with non-empty question and answer, and                   *)
(* conversionFormulas / ingredientFormulas absent or arrays.                  *)
C9_EndToEndPass ==
  /\ \A i \in Reached :
       (EndToEndShape(converters[i]) /\ WellTypedFields(converters[i]))
         => (~Results[i].thrown /\ Results[i].errors = <<>>)
  /\ (calls = 1 /\ \A i \in 1..Len(converters) :
        EndToEndShape(converters[i]) /\ WellTypedFields(converters[i]))
       => (outcome.kind = "returned" /\ outcome.report.isValid)

C9_Witness ==
  /\ calls = 1
  /\ Len(converters) = 1
  /\ EndToEndShape(converters[1]) /\ WellTypedFields(converters[1])
  /\ Present(converters[1], "extra")
  /\ outcome.kind = "returned"
  /\ outcome.report.isValid

ShapeMsgs ==
  {"\"contentSequence\" must be an array", "\"contentSequence\" cannot be empty",
   "\"contentSequence\" must include \"hero\" section"}

GoodSequence(c) ==
  LET cs == Get(c, "contentSequence")
  IN /\ IsArray(cs)
     /\ Len(cs.a) > 0
     /\ \E k \in 1..Len(cs.a) : cs.a[k] = S("hero")

(* C10: a record passes the contentSequence check iff contentSequence is a    *)
(* non-empty array containing "hero"; every other record gets exactly one     *)
(* contentSequence-shape error and is failed.                                 *)
C10_ContentSequenceShape ==
  \A i \in Reached :
    converters[i] # Null =>
      IF GoodSequence(converters[i])
        THEN ErrorSet(i) \cap ShapeMsgs = {}
        ELSE /\ ~Results[i].thrown
             /\ Cardinality({k \in 1..Len(Results[i].errors) :
                               Results[i].errors[k] \in ShapeMsgs}) = 1
             /\ outcome.kind = "exit"
             /\ Len(failedIds) > 0

-----------------------------------------------------------------------------
(* Section-level inputs: BaseRecord with a contentSequence of one or two    *)
(* names and a contentSections object of up to three entries.               *)

SequenceNames ==
  {"hero", "quickReference", "tips", "converter", "faq", "faqs",
   "madeUpSection", "toString", "constructor"}

SectionSequences ==
  {<<S("hero")>>} \cup {<<S("hero"), S(n)>> : n \in SequenceNames \ {"hero"}}
  \cup {<<S("quickReference"), S("madeUpSection")>>}

TipsSection == Obj(<<KV("title", S("T")), KV("tips", Arr(<<S("stir")>>))>>)

SectionEntries ==
  { KV("hero", HeroSection), KV("hero", Obj(<<>>)), KV("hero", Null),
    KV("quickReference", Null), KV("quickReference", Obj(<<>>)),
    KV("tips", TipsSection), KV("tips", Obj(<<KV("title", S("T"))>>)),
    KV("tips", EmptyString), KV("tips", Num("0")),
    KV("converter", Obj(<<>>)), KV("converter", S("x")),
    KV("faq", Obj(<<>>)), KV("faqs", Null),
    KV("madeUpSection", Obj(<<>>)), KV("madeUpSection", Null),
    KV("toString", Obj(<<>>)), KV("constructor", Obj(<<KV("title", S("T"))>>)) }

RECURSIVE SectionsOf(_)
SectionsOf(entries) ==
  IF entries = <<>> THEN <<>>
  ELSE SetEntry(SectionsOf(Tail(entries)), Head(entries).k, Head(entries).v)

SectionObjects ==
  {Obj(SectionsOf(es)) : es \in UNION {[1..n -> SectionEntries] : n \in 0..2}}

SectionRecord(sequence, sections) ==
  With(With(BaseRecord, "contentSequence", Arr(sequence)), "contentSections", sections)

(* One record, its contentSequence and contentSections varied, validated on *)
(* a fresh instance.                                                        *)
CallSection ==
  /\ calls = 0
  /\ \E sequence \in SectionSequences, sections \in SectionObjects :
        validateConverters(<<SectionRecord(sequence, sections)>>)
  /\ UNCHANGED <<faulty, cli, page>>

SpecSection == Init /\ [][CallSection]_vars

-----------------------------------------------------------------------------
(* Section-level properties (SpecSection) *)

InputSequence == Get(converters[1], "contentSequence").a
InputSections == Get(converters[1], "contentSections")
SectionRun == calls = 1 /\ Len(Results) = 1 /\ ~Results[1].thrown
NotFoundMsg(n) == "Section \"" \o n \o "\" in contentSequence not found in contentSections"
UnknownMsg(n) == "Unknown section: \"" \o n \o "\" in contentSections"
HasKey(obj, key) == \E k \in 1..Len(Keys(obj)) : Keys(obj)[k] = key

(* C11: when contentSections is an object, for every name N of              *)
(* contentSequence other than converter, faq and faqs, a 'Section "N" in      *)
(* contentSequence not found in contentSections' error is reported iff        *)
(* contentSections has no key N; converter, faq and faqs never produce it.    *)
C11_SequenceCrossReference ==
  SectionRun =>
    \A k \in 1..Len(InputSequence) :
      LET n == ToJSString(InputSequence[k])
      IN IF n \in SeqToSet(SPECIAL_SECTIONS)
           THEN NotFoundMsg(n) \notin ErrorSet(1)
           ELSE (NotFoundMsg(n) \in ErrorSet(1)) <=> ~HasKey(InputSections, n)

RequiredKeyMsg(n, key) ==
  "contentSections." \o n \o " missing required key: \"" \o key \o "\""
MustBeObjectMsg(n) == "Section \"" \o n \o "\" must be an object"
IsPlainObject(v) == TypeOf(v) = "object" /\ v # Null

(* C12: no section key passes silently: every key K of contentSections,      *)
(* whether or not contentSequence names it, is validated against its schema   *)
(* descriptor (a non-object value and a missing required key are reported),   *)
(* or, when the schema table has no descriptor for K, gets exactly one        *)
(* 'Unknown section' error naming K.                                          *)
C12_NoSectionPassesSilently ==
  SectionRun =>
    \A k \in 1..Len(Keys(InputSections)) :
      LET n == Keys(InputSections)[k]
          data == Get(InputSections, n)
      IN IF n \in SECTION_NAMES
           THEN /\ UnknownMsg(n) \notin ErrorSet(1)
                /\ ~IsPlainObject(data) => MustBeObjectMsg(n) \in ErrorSet(1)
                /\ IsPlainObject(data) =>
                     \A r \in 1..Len(SECTION_STRUCTURES(n).requiredKeys) :
                       LET key == SECTION_STRUCTURES(n).requiredKeys[r]
                       IN Get(data, key) = Undefined
                            => RequiredKeyMsg(n, key) \in ErrorSet(1)
           ELSE Count(Results[1].errors, UnknownMsg(n)) = 1

-----------------------------------------------------------------------------
(* quickReference items (SpecItems): BaseRecord with a quickReference       *)
(* section whose items array holds up to three elements.                    *)

Flour == S("Flour")

ItemChoices ==
  { Obj(<<KV("ingredient", Flour)>>),
    Obj(<<KV("ingredient", Flour), KV("cup", Num("1"))>>),
    Obj(<<KV("cup", Num("1"))>>),
    Obj(<<>>),
    Obj(<<KV("ingredient", Flour), KV("icon", S("i")), KV("tip", S("t"))>>),
    Obj(<<KV("ingredient", Null), KV("grams", Num("5"))>>),
    Obj(<<KV("tip", S("t"))>>),
    Null, S("x"), Num("5"), Bool(TRUE),
    Arr(<<>>), Arr(<<S("x")>>) }

MaxItems == 3

ItemLists == UNION {[1..n -> ItemChoices] : n \in 0..MaxItems}

ItemsRecord(items) ==
  SectionRecord(<<S("hero"), S("quickReference")>>,
    Obj(<<KV("hero", HeroSection),
          KV("quickReference", Obj(<<KV("title", S("T")), KV("items", Arr(items))>>))>>))

CallItems ==
  /\ calls = 0
  /\ \E items \in ItemLists : validateConverters(<<ItemsRecord(items)>>)
  /\ UNCHANGED <<faulty, cli, page>>

SpecItems == Init /\ [][CallItems]_vars

InputItems == Get(Get(InputSections, "quickReference"), "items").a
ItemObjectMsg(k) == Idx("quickReference.items", k) \o " must be an object"
ItemIngredientMsg(k) ==
  Idx("quickReference.items", k) \o " missing required key: \"ingredient\""
ItemValueMsg(k) ==
  Idx("quickReference.items", k)
  \o " must have at least one conversion value (cup, grams, celsius, etc.)"

(* C13: quickReference item rule.  For every element of                      *)
(* contentSections.quickReference.items that is an object (typeof object,    *)
(* not null), the 'must have at least one conversion value' error is         *)
(* reported iff the element has no key other than ingredient, icon and tip,  *)
(* and the 'missing required key: ingredient' error iff ingredient is        *)
(* undefined; every other element gets exactly one 'must be an object'       *)
(* error and no other item error.                                            *)
C13_QuickReferenceItemRule ==
  SectionRun =>
    \A k \in 1..Len(InputItems) :
      LET item == InputItems[k]
      IN IF IsPlainObject(item)
           THEN /\ ItemObjectMsg(k) \notin ErrorSet(1)
                /\ (ItemValueMsg(k) \in ErrorSet(1))
                     <=> SeqToSet(Keys(item)) \subseteq {"ingredient", "icon", "tip"}
                /\ (ItemIngredientMsg(k) \in ErrorSet(1))
                     <=> ~HasKey(item, "ingredient")
           ELSE /\ Count(Results[1].errors, ItemObjectMsg(k)) = 1
                /\ ItemValueMsg(k) \notin ErrorSet(1)
                /\ ItemIngredientMsg(k) \notin ErrorSet(1)

(* items = [{ingredient}, {ingredient, cup}, null] *)
C13_Witness ==
  /\ SectionRun
  /\ HasKey(InputSections, "quickReference")
  /\ InputItems = <<Obj(<<KV("ingredient", Flour)>>),
                    Obj(<<KV("ingredient", Flour), KV("cup", Num("1"))>>), Null>>
  /\ Results[1].errors = <<ItemValueMsg(1), ItemObjectMsg(3)>>

-----------------------------------------------------------------------------
(* Word-count gate (SpecRecord) *)

LowVolumeMsg(n) ==
  "Low content volume: Only " \o ToString(n) \o " words (minimum 1000 words required)"
LowVolumeMsgs == {LowVolumeMsg(n) : n \in 0..(WORD_MINIMUM + 10)}

(* C14: for every record, the returned error list contains a low-content-    *)
(* volume error iff the record's computed word count is below 1000 (exactly  *)
(* 1000 words give none), and a record below the threshold is failed even    *)
(* when every structural check passes.                                       *)
C14_WordCountGate ==
  \A i \in Reached :
    ~Results[i].thrown =>
      /\ (ErrorSet(i) \cap LowVolumeMsgs # {}) <=> (Results[i].wordCount < WORD_MINIMUM)
      /\ Results[i].wordCount < WORD_MINIMUM =>
           /\ Count(Results[i].errors, LowVolumeMsg(Results[i].wordCount)) = 1
           /\ Len(failedIds) > 0
           /\ outcome.kind = "exit"

(* 999 words and no other defect: the record is failed by the gate alone *)
C14_Witness ==
  /\ calls = 1
  /\ Len(Results) = 1
  /\ Results[1].wordCount = WORD_MINIMUM - 1
  /\ Results[1].errors = <<LowVolumeMsg(WORD_MINIMUM - 1)>>
  /\ failedIds = <<S("a")>>

-----------------------------------------------------------------------------
(* Word-count inputs (SpecWords): records with short texts, nested          *)
(* contentSections and varied faqs, handed to calculateWordCount directly.  *)

Blank == Str(<<Rep(<<" ">>, 2)>>)
SpacedAB == Str(<<Rep(<<" ", "a", " ", " ", "b", " ">>, 1)>>)
Triple == Str(<<Rep(<<"w", " ">>, 3)>>)

WordSections ==
  {Null, SpacedAB}
  \cup { Obj(<<KV("hero", Obj(<<KV("title", x)>>)),
               KV("list", Arr(<<y, Obj(<<KV("deep", Arr(<<z, leaf>>))>>), last>>))>>) :
           x \in {EmptyString, S("a"), SpacedAB}, y \in {S("a"), SpacedAB},
           z \in {Blank, Triple}, leaf \in {Num("7"), Null, Bool(TRUE)},
           last \in {Num("0"), S("a")} }

WordFaqs ==
  { Undefined, Triple, Arr(<<>>),
    Arr(<<Obj(<<KV("question", SpacedAB), KV("answer", Triple)>>)>>),
    Arr(<<Obj(<<KV("question", S("a")), KV("answer", Blank)>>),
          Obj(<<KV("question", Triple)>>)>>),
    Arr(<<S("x"), Obj(<<KV("question", Num("5")), KV("answer", SpacedAB)>>)>>),
    Arr(<<Null, Obj(<<KV("question", S("a")), KV("answer", S("a"))>>)>>) }

WordRecords ==
  { ApplyOverrides(BaseRecord,
      <<KV("title", title), KV("description", description),
        KV("contentSections", sections), KV("faqs", faqs)>>) :
      title \in {Undefined, SpacedAB, Num("5")},
      description \in {EmptyString, Triple},
      sections \in WordSections, faqs \in WordFaqs }

Reverse(q) == [i \in 1..Len(q) |-> q[Len(q) + 1 - i]]
Rotate(q) == IF q = <<>> THEN q ELSE Tail(q) \o <<Head(q)>>

(* v with the keys of every object and the elements of every array in it   *)
(* reversed (or rotated)                                                    *)
RECURSIVE Reordered(_, _)
Reordered(v, rotate) ==
  LET order(q) == IF rotate THEN Rotate(q) ELSE Reverse(q)
  IN IF v.type = "array"
       THEN Arr(order([i \in 1..Len(v.a) |-> Reordered(v.a[i], rotate)]))
     ELSE IF v.type = "object"
       THEN Obj(order([i \in 1..Len(v.o) |->
                         KV(v.o[i].k, Reordered(v.o[i].v, rotate))]))
     ELSE v

(* The records that differ from r only in the order of contentSections     *)
(* (at every depth) and of faqs; r itself stands for a repeated call.      *)
Reorderings(r) ==
  {r}
  \cup { With(With(r, "contentSections",
                   Reordered(Get(r, "contentSections"), rotate)),
              "faqs", IF faqsToo THEN Reordered(Get(r, "faqs"), rotate)
                      ELSE Get(r, "faqs")) :
           rotate \in BOOLEAN, faqsToo \in BOOLEAN }

MaxCounts == 2

(* validator.calculateWordCount(converter), called directly *)
calculateWordCountCall(converter) ==
  /\ converters' = Append(converters, converter)
  /\ calls' = calls + 1
  /\ outcome' =
       [kind |-> IF calculateWordCountThrows(converter) THEN "throw" ELSE "counted",
        results |->
          Append(outcome.results,
            [thrown |-> calculateWordCountThrows(converter), errors |-> <<>>,
             checks |-> 0, counted |-> FALSE,
             wordCount |-> IF calculateWordCountThrows(converter) THEN 0
                           ELSE calculateWordCount(converter)]),
        summary |-> FALSE, report |-> NoReport]
  /\ UNCHANGED <<failedIds, wordCounts, warnings>>

(* A first call on some record, then calls on reorderings of it *)
CountWords ==
  /\ calls < MaxCounts
  /\ \E r \in (IF calls = 0 THEN WordRecords ELSE Reorderings(converters[1])) :
        calculateWordCountCall(r)
  /\ UNCHANGED <<faulty, cli, page>>

SpecWords == Init /\ [][CountWords]_vars

-----------------------------------------------------------------------------
(* Word-count properties (SpecWords)                                        *)

(* C15: calculateWordCount is idempotent and order-independent: a second   *)
(* call on the same record, or on a record that differs only in the order  *)
(* of keys, of array elements or of faqs, returns the same count (and      *)
(* throws exactly when the first call throws).                             *)
C15_OrderIndependentCount ==
  \A i \in Reached :
    /\ converters[i] \in Reorderings(converters[1])
    /\ Results[i].thrown = Results[1].thrown
    /\ Results[i].wordCount = Results[1].wordCount

C15_Witness ==
  /\ calls = 2 /\ Len(Results) = 2
  /\ ~Results[2].thrown
  /\ Results[2].wordCount = Results[1].wordCount
  /\ Results[1].wordCount = 17
  /\ Get(converters[2], "contentSections") # Get(converters[1], "contentSections")
  /\ Get(converters[2], "faqs") # Get(converters[1], "faqs")

(* The characters of a string value, one symbol per element *)
RECURSIVE Expand(_)
Expand(runs) ==
  IF runs = <<>> THEN <<>>
  ELSE LET first == Head(runs)
       IN IF first.times = 0 THEN Expand(Tail(runs))
          ELSE first.text \o Expand(<<Rep(first.text, first.times - 1)>> \o Tail(runs))

(* Whitespace-separated tokens of a value: the maximal runs of             *)
(* non-whitespace characters of a string, nothing for any other value      *)
Tokens(v) ==
  IF v.type # "string" THEN 0
  ELSE LET chars == Expand(v.s)
       IN Cardinality({i \in 1..Len(chars) :
                         chars[i] # " " /\ (i = 1 \/ chars[i - 1] = " ")})

RECURSIVE Concat(_)
Concat(qs) == IF qs = <<>> THEN <<>> ELSE Head(qs) \o Concat(Tail(qs))

(* The string leaves inside an array or object, at any depth *)
RECURSIVE StringLeaves(_)
StringLeaves(v) ==
  LET inside(x) == IF x.type = "string" THEN <<x>> ELSE StringLeaves(x)
  IN IF v.type = "array" THEN Concat([i \in 1..Len(v.a) |-> inside(v.a[i])])
     ELSE IF v.type = "object" THEN Concat([i \in 1..Len(v.o) |-> inside(v.o[i].v)])
     ELSE <<>>

RECURSIVE SumTokens(_)
SumTokens(q) == IF q = <<>> THEN 0 ELSE Tokens(Head(q)) + SumTokens(Tail(q))

ReferenceCount(converter) ==
  LET faqs == Get(converter, "faqs")
      elements == IF faqs.type = "array" THEN faqs.a ELSE <<>>
  IN Tokens(Get(converter, "title")) + Tokens(Get(converter, "description"))
     + SumTokens(StringLeaves(Get(converter, "contentSections")))
     + SumTokens(Concat([i \in 1..Len(elements) |->
                           <<Get(elements[i], "question"), Get(elements[i], "answer")>>]))

(* C16: every call of calculateWordCount returns the reference count of    *)
(* its record: the tokens of title and description, of every string leaf   *)
(* inside contentSections and of the question and answer of every element  *)
(* of faqs.                                                                *)
C16_EqualsReferenceCount ==
  \A i \in Reached :
    /\ ~Results[i].thrown
    /\ Results[i].wordCount = ReferenceCount(converters[i])

-----------------------------------------------------------------------------
(* Warnings (SpecRecord)                                                    *)

(* The record without its keys outside the allow-list, and without         *)
(* conversionFormulas when that array stands beside a conversions object   *)
RECURSIVE WithoutAdditionalKeys(_)
WithoutAdditionalKeys(entries) ==
  IF entries = <<>> THEN <<>>
  ELSE IF Includes(ALL_TOP_LEVEL_KEYS, Head(entries).k)
    THEN <<Head(entries)>> \o WithoutAdditionalKeys(Tail(entries))
  ELSE WithoutAdditionalKeys(Tail(entries))

WithoutWarningCauses(converter) ==
  LET kept == Obj(WithoutAdditionalKeys(converter.o))
  IN IF hasConversions(converter) /\ hasConversionFormulas(converter)
       THEN With(kept, "conversionFormulas", Undefined)
       ELSE kept

AdditionalKeyMsg(id, key) ==
  id \o ": Additional key \"" \o key \o "\" found (allowed but not in template)"

BothConversionsMsg(id) ==
  id \o ": Has both \"conversions\" and \"conversionFormulas\" - using \"conversions\""

(* C17: a record with a key outside the allow-list, or with a              *)
(* conversionFormulas array beside its conversions object, gets the error  *)
(* list, the failedIds and the verdict of the same record without them;    *)
(* only the warnings list grows.                                           *)
C17_WarningsNeverAffectVerdict ==
  (calls = 1 /\ Len(Results) = 1) =>
    LET plain == validateSingleConverter(WithoutWarningCauses(converters[1]))
    IN /\ plain.warnings = <<>>
       /\ Results[1].thrown = plain.thrown
       /\ Results[1].errors = plain.errors
       /\ ~plain.thrown =>
            /\ failedIds = IF plain.errors = <<>> THEN <<>>
                           ELSE <<ConverterId(converters[1], 0)>>
            /\ (outcome.kind = "returned" /\ outcome.report.isValid)
                  <=> (plain.errors = <<>>)
       /\ (warnings # <<>>) <=> (converters[1] # WithoutWarningCauses(converters[1]))

C17_Witness ==
  /\ calls = 1 /\ Len(Results) = 1
  /\ Get(converters[1], "extra") = Num("1")
  /\ Get(converters[1], "conversionFormulas") = Arr(<<>>)
  /\ warnings = <<AdditionalKeyMsg("a", "extra"), BothConversionsMsg("a")>>
  /\ Results[1].errors = <<>>
  /\ failedIds = <<>>
  /\ outcome.kind = "returned" /\ outcome.report.isValid

-----------------------------------------------------------------------------
(* Custom callbacks (SpecCustom): the schema table with some of its        *)
(* validate callbacks replaced by one that throws.                         *)

RelatedSection == Obj(<<KV("title", S("T")), KV("links", Arr(<<S("l")>>))>>)
TableSection == Obj(<<KV("title", S("T")), KV("columns", Arr(<<S("c")>>))>>)
ReferenceSection(items) == Obj(<<KV("title", S("T")), KV("items", Arr(items))>>)

CustomEntries ==
  { KV("hero", HeroSection), KV("tips", TipsSection), KV("related", RelatedSection),
    KV("comparisonTable", TableSection),
    KV("quickReference", ReferenceSection(<<>>)),
    KV("quickReference", ReferenceSection(<<Flour, Flour, Flour>>)),
    KV("quickReference", Obj(<<KV("title", S("T"))>>)) }

CustomSections ==
  {Obj(SectionsOf(es)) : es \in UNION {[1..n -> CustomEntries] : n \in 1..2}}

CustomRecord(sections) == SectionRecord(<<S("hero")>>, sections)

(* The instance with a schema table some of whose callbacks throw *)
InitCustom ==
  /\ converters = <<>>
  /\ failedIds = <<>>
  /\ wordCounts = <<>>
  /\ warnings = <<>>
  /\ outcome = NoOutcome
  /\ calls = 0
  /\ faulty \in SUBSET CALLBACKS
  /\ cli = NoCli
  /\ page = NoPage

(* A record with the sections that have callbacks, followed or not by a    *)
(* valid record.                                                           *)
CallCustom ==
  /\ calls = 0
  /\ \E sections \in CustomSections, rest \in {<<>>, <<RecordB>>} :
        validateConverters(<<CustomRecord(sections)>> \o rest)
  /\ UNCHANGED <<faulty, cli, page>>

SpecCustom == InitCustom /\ [][CallCustom]_vars

(* The callbacks called while section name with value data is validated *)
CalledCallbacks(name, data) ==
  IF TypeOf(data) # "object" \/ data = Null THEN {}
  ELSE (IF name \in {"comparisonTable", "tips", "related"} THEN {name} ELSE {})
       \cup (IF /\ name = "quickReference"
                /\ IsArray(Get(data, "items")) /\ Len(Get(data, "items").a) > 0
               THEN {"quickReference.items"} ELSE {})

FaultMsg(name) == "Error validating " \o name \o ": " \o FAULT_MESSAGE

InputSectionsOf(i) == Entries(Get(converters[i], "contentSections"))

(* C18: a validate callback that throws never ends the run: every record   *)
(* of the call is validated to the end, and for every section S one of     *)
(* whose callbacks threw the record's errors hold exactly one error naming *)
(* S and the exception message.                                            *)
C18_CallbackFaultsContained ==
  calls = 1 =>
    /\ outcome.kind # "throw"
    /\ Len(Results) = Len(converters)
    /\ \A i \in Reached :
         /\ ~Results[i].thrown
         /\ \A k \in 1..Len(InputSectionsOf(i)) :
              LET name == InputSectionsOf(i)[k].k
              IN CalledCallbacks(name, InputSectionsOf(i)[k].v) \cap faulty # {}
                   => Count(Results[i].errors, FaultMsg(name)) = 1

-----------------------------------------------------------------------------
(* Command line (SpecCLI): node strict-validate-converters.js <file>        *)

Paths == {<<>>, <<"converters.json">>, <<"converters.json", "other.json">>}

(* What JSON.parse returns for the file's content *)
Documents ==
  { Null, Num("5"), S("converters"), Arr(<<>>), Obj(<<>>),
    Obj(<<KV("converters", Null)>>), Obj(<<KV("converters", S("x"))>>),
    Obj(<<KV("converters", Obj(<<>>))>>), Obj(<<KV("records", Arr(<<RecordA>>))>>) }
  \cup { Obj(<<KV("converters", Arr(list))>>) : list \in InputArrays }

(* What is at the path args[0]: nothing, something readFileSync cannot     *)
(* read, text that is no JSON, or a JSON document                          *)
Files ==
  { [kind |-> k, data |-> Undefined] : k \in {"missing", "unreadable", "unparsable"} }
  \cup { [kind |-> "json", data |-> d] : d \in Documents }

(* A catch block that logs and goes on *)
ExitCodeSwallowingThrow(kind) == IF kind = "exit" THEN 1 ELSE 0

(* How the process ends after validator.validateConverters: process.exit(1) *)
(* in printSummary, process.exit(1) in the catch block, or a normal end     *)
ExitCode(kind) == IF kind = "returned" THEN 0 ELSE 1

(* !data.converters || !Array.isArray(data.converters) *)
convertersNotFound(data) ==
  ~Truthy(Get(data, "converters")) \/ ~IsArray(Get(data, "converters"))

Fatal(args, file, condition) ==
  /\ cli' = [args |-> args, file |-> file, fatal |-> condition, exitCode |-> 1]
  /\ UNCHANGED <<converters, failedIds, wordCounts, warnings, outcome, calls>>

(* Reading data.converters of null is a TypeError inside the try block *)
validateConvertersFileStrict(args, file) ==
  IF file.kind \in {"unreadable", "unparsable"} \/ file.data = Null
    THEN Fatal(args, file, "read")
  ELSE IF convertersNotFound(file.data) THEN Fatal(args, file, "structure")
  ELSE /\ validateConverters(Get(file.data, "converters").a)
       /\ cli' = [args |-> args, file |-> file,
                  fatal |-> IF outcome'.kind = "throw" THEN "read" ELSE "none",
                  exitCode |-> ExitCode(outcome'.kind)]

main(args, file) ==
  IF Len(args) < 1 THEN Fatal(args, file, "usage")
  ELSE IF file.kind = "missing" THEN Fatal(args, file, "notFound")
  ELSE validateConvertersFileStrict(args, file)

Run ==
  /\ cli = NoCli
  /\ \E args \in Paths, file \in Files : main(args, file)
  /\ UNCHANGED <<faulty, page>>

SpecCLI == Init /\ [][Run]_vars

Ended == cli.exitCode # -1

(* The document's converters array, when the run got one *)
HasConvertersArray ==
  /\ Len(cli.args) > 0 /\ cli.file.kind = "json"
  /\ IsArray(Get(cli.file.data, "converters"))

FileRecords == Get(cli.file.data, "converters").a

FailsValidation(converter) ==
  validateSingleConverter(converter).thrown
  \/ validateSingleConverter(converter).errors # <<>>

(* C19: the process ends with exit code 1 iff no path is given, the file   *)
(* is missing or cannot be read or parsed, the document has no converters  *)
(* array, or a record of the array fails validation; otherwise with exit   *)
(* code 0; and without a converters array the fatal condition is reported  *)
(* and no record is validated.                                             *)
C19_CliOutcome ==
  Ended =>
    /\ cli.exitCode \in {0, 1}
    /\ (cli.exitCode = 1) <=>
         \/ ~HasConvertersArray
         \/ \E i \in 1..Len(FileRecords) : FailsValidation(FileRecords[i])
    /\ ~HasConvertersArray =>
         /\ cli.fatal \in {"usage", "notFound", "read", "structure"}
         /\ calls = 0 /\ Results = <<>> /\ wordCounts = <<>> /\ ~outcome.summary
    /\ (Len(cli.args) > 0 /\ cli.file.data = Obj(<<>>)) => cli.fatal = "structure"

C19_Witness ==
  /\ Ended
  /\ cli.file.data = Obj(<<KV("converters", Arr(<<>>))>>)
  /\ cli.exitCode = 0
  /\ calls = 1
  /\ outcome.kind = "returned" /\ outcome.report.total = 0

-----------------------------------------------------------------------------
(* Required top-level keys (SpecKeys): BaseRecord with some required keys  *)
(* removed and one of them present with a falsy value.                     *)

MaxAbsent == 2

RequiredKeySet == SeqToSet(TOP_LEVEL_REQUIRED_KEYS)

AbsentSets == {ks \in SUBSET RequiredKeySet : Cardinality(ks) <= MaxAbsent}

FalsyValues == {Null, EmptyString, Num("0"), Bool(FALSE)}

RECURSIVE WithoutKeys(_, _)
WithoutKeys(entries, ks) ==
  IF entries = <<>> THEN <<>>
  ELSE IF Head(entries).k \in ks THEN WithoutKeys(Tail(entries), ks)
  ELSE <<Head(entries)>> \o WithoutKeys(Tail(entries), ks)

KeysRecord(absent, falsy) ==
  ApplyOverrides(Obj(WithoutKeys(BaseRecord.o, absent)), falsy)

CallKeys ==
  /\ calls = 0
  /\ \E absent \in AbsentSets :
       \E falsy \in {<<>>} \cup {<<KV(k, v)>> : k \in RequiredKeySet \ absent,
                                               v \in FalsyValues} :
          validateConverters(<<KeysRecord(absent, falsy)>>)
  /\ UNCHANGED <<faulty, cli, page>>

SpecKeys == Init /\ [][CallKeys]_vars

RequiredFieldMsg(key) == "Missing required field: \"" \o key \o "\""

(* C21: a validated record gets a 'Missing required field' error naming a  *)
(* required key exactly when that key is absent from the record, and a     *)
(* record from which a required key is absent is failed.                   *)
C21_RequiredKeysPresence ==
  (calls = 1 /\ Len(Results) = 1 /\ ~Results[1].thrown) =>
    \A key \in RequiredKeySet :
      /\ (RequiredFieldMsg(key) \in ErrorSet(1)) <=> ~HasKey(converters[1], key)
      /\ ~HasKey(converters[1], key) => failedIds # <<>> /\ outcome.kind = "exit"

-----------------------------------------------------------------------------
(* Array fields (SpecArrays): BaseRecord with two of the array fields set  *)
(* to a value of any type, or removed.                                     *)

ArrayFieldSet == SeqToSet(ARRAY_FIELDS)

FieldValues ==
  { Undefined, Arr(<<S("x")>>), Obj(<<>>), S("x"), Num("5"), Bool(TRUE),
    Null, Bool(FALSE), Num("0"), EmptyString }

ArrayOverrides == {KV(f, v) : f \in ArrayFieldSet, v \in FieldValues}

CallArrays ==
  /\ calls = 0
  /\ \E first \in ArrayOverrides, second \in ArrayOverrides :
        validateConverters(<<ApplyOverrides(BaseRecord, <<first, second>>)>>)
  /\ UNCHANGED <<faulty, cli, page>>

SpecArrays == Init /\ [][CallArrays]_vars

MustBeArrayMsg(field) == "\"" \o field \o "\" must be an array"

(* C22: a validated record in which one of the seven array fields is      *)
(* present with a value that is no array (falsy values included) gets the *)
(* '"<field>" must be an array' error, and a record from which            *)
(* conversionFormulas or ingredientFormulas is absent gets none for it.    *)
C22_ArrayTypedness ==
  (calls = 1 /\ Len(Results) = 1 /\ ~Results[1].thrown) =>
    \A field \in ArrayFieldSet :
      /\ (HasKey(converters[1], field) /\ ~IsArray(Get(converters[1], field)))
            => MustBeArrayMsg(field) \in ErrorSet(1)
      /\ (~HasKey(converters[1], field)
          /\ field \in {"conversionFormulas", "ingredientFormulas"})
            => MustBeArrayMsg(field) \notin ErrorSet(1)

-----------------------------------------------------------------------------
(* Conversion representation (SpecConversions): BaseRecord with its        *)
(* conversions, conversionFormulas and supportedUnits varied.              *)

GramRow == Obj(<<KV("g", Num("1")), KV("kg", Num("0.001"))>>)
KiloRow == Obj(<<KV("g", Num("1000")), KV("kg", Num("1"))>>)

ConversionsChoices ==
  { Undefined, Null, S("x"), Num("5"), Arr(<<>>), Obj(<<>>),
    Obj(<<KV("g", Obj(<<KV("g", Num("1"))>>))>>),
    Obj(<<KV("g", GramRow), KV("kg", KiloRow)>>),
    Obj(<<KV("g", GramRow), KV("kg", Obj(<<KV("kg", Num("2"))>>))>>) }

FormulasChoices ==
  { Undefined, Null, S("x"), Obj(<<>>), Arr(<<>>),
    Arr(<<Obj(<<KV("from", S("g")), KV("to", S("kg"))>>)>>) }

UnitsChoices == { Undefined, Arr(<<>>), Arr(<<S("g")>>), Arr(<<S("g"), S("kg")>>) }

ConversionsRecord(conversions, formulas, units) ==
  ApplyOverrides(BaseRecord,
    <<KV("conversions", conversions), KV("conversionFormulas", formulas),
      KV("supportedUnits", units)>>)

CallConversions ==
  /\ calls = 0
  /\ \E conversions \in ConversionsChoices, formulas \in FormulasChoices,
        units \in UnitsChoices :
        validateConverters(<<ConversionsRecord(conversions, formulas, units)>>)
  /\ UNCHANGED <<faulty, cli, page>>

SpecConversions == Init /\ [][CallConversions]_vars

EitherMsg == "Must have either \"conversions\" object or \"conversionFormulas\" array"

(* The record has a conversions mapping: a non-null value of type object *)
HasMapping(r) ==
  HasKey(r, "conversions") /\ Get(r, "conversions").type \in {"object", "array"}

(* The record has a conversionFormulas sequence *)
HasSequence(r) ==
  HasKey(r, "conversionFormulas") /\ Get(r, "conversionFormulas").type = "array"

NonEmptyUnits(r) ==
  Get(r, "supportedUnits").type = "array" /\ Len(Get(r, "supportedUnits").a) > 0

(* C23: a validated record gets the 'Must have either' error iff it has    *)
(* neither a conversions mapping nor a conversionFormulas sequence, the    *)
(* both-present warning iff it has both, and with both its conversions     *)
(* matrix is still checked against supportedUnits.                         *)
C23_ConversionRepresentation ==
  (calls = 1 /\ Len(Results) = 1 /\ ~Results[1].thrown) =>
    LET r == converters[1]
        id == ToJSString(Get(r, "id"))
    IN /\ (EitherMsg \in ErrorSet(1)) <=> (~HasMapping(r) /\ ~HasSequence(r))
       /\ Count(Results[1].errors, EitherMsg) <= 1
       /\ (warnings # <<>>) <=> (HasMapping(r) /\ HasSequence(r))
       /\ (HasMapping(r) /\ HasSequence(r)) => warnings = <<BothConversionsMsg(id)>>
       /\ (HasMapping(r) /\ NonEmptyUnits(r)) =>
            SeqToSet(validateConversionMatrix(With(r, "conversionFormulas", Undefined)))
              \subseteq ErrorSet(1)

C23_Witness ==
  /\ calls = 1 /\ Len(Results) = 1
  /\ HasMapping(converters[1]) /\ HasSequence(converters[1])
  /\ warnings = <<BothConversionsMsg("a")>>
  /\ EitherMsg \notin ErrorSet(1)
  /\ MissingMsg("kg", "g") \in ErrorSet(1)

-----------------------------------------------------------------------------
(* Top-level faqs (SpecFaqs): BaseRecord with faqs an array of up to       *)
(* MaxFaqs elements of any shape.                                          *)

MaxFaqs == 2

Faq(question, answer) == Obj(<<KV("question", question), KV("answer", answer)>>)

FaqChoices ==
  { Faq(S("Q?"), S("A.")), Faq(EmptyString, S("A.")), Faq(S("Q?"), EmptyString),
    Faq(Null, Null), Obj(<<KV("question", S("Q?"))>>), Obj(<<KV("answer", S("A."))>>),
    Obj(<<>>), S("x"), Num("5"), Arr(<<>>), Null }

FaqLists == UNION {[1..n -> FaqChoices] : n \in 0..MaxFaqs}

CallFaqs ==
  /\ calls = 0
  /\ \E faqs \in FaqLists : validateConverters(<<With(BaseRecord, "faqs", Arr(faqs))>>)
  /\ UNCHANGED <<faulty, cli, page>>

SpecFaqs == Init /\ [][CallFaqs]_vars

InputFaqs == Get(converters[1], "faqs").a

FaqFieldMsg(i, field) ==
  "\"faqs\"[" \o ToString(i - 1) \o "] missing required field: \"" \o field \o "\""

FaqsEmptyMsg == "\"faqs\" array cannot be empty"

(* C24: for a record whose faqs is an array the faqs errors are one        *)
(* question error for each element without a non-empty question and one    *)
(* answer error for each element without a non-empty answer, each with the *)
(* element's index, and nothing else: none for an array all of whose       *)
(* elements have both, the array without elements included.                *)
C24_FaqsErrorsPerElement ==
  calls = 1 =>
    /\ Len(Results) = 1 /\ ~Results[1].thrown
    /\ \A i \in 1..Len(InputFaqs) :
         \A field \in {"question", "answer"} :
           Count(Results[1].errors, FaqFieldMsg(i, field))
             = IF Truthy(Get(InputFaqs[i], field)) THEN 0 ELSE 1
    /\ FaqsEmptyMsg \notin ErrorSet(1)
    /\ MustBeArrayMsg("faqs") \notin ErrorSet(1)

-----------------------------------------------------------------------------
(* Per-item required keys (SpecGeneric): a record with one section whose   *)
(* array field has an itemStructure with requiredKeys, the array holding   *)
(* up to MaxElements elements.                                             *)

MaxElements == 2

(* The array fields whose itemStructure lists requiredKeys, validated by   *)
(* validateGenericArray                                                    *)
KeyedArrays ==
  { <<"visualChart", "items">>, <<"stepByStep", "steps">>,
    <<"commonMistakes", "mistakes">>, <<"equipmentGuide", "tools">>,
    <<"scientificBackground", "concepts">>, <<"regionalVariations", "regions">>,
    <<"recipeExamples", "examples">>, <<"faq", "items">>, <<"faqs", "items">> }

ItemKeys(sf) == SECTION_STRUCTURES(sf[1]).arrays[sf[2]].requiredKeys

(* An element with all the keys, one without the first of them, one with   *)
(* none, and elements that are no objects                                  *)
ElementChoices(sf) ==
  { Obj([k \in 1..Len(ItemKeys(sf)) |-> KV(ItemKeys(sf)[k], S("v"))]),
    Obj([k \in 1..Len(ItemKeys(sf)) - 1 |-> KV(ItemKeys(sf)[k + 1], S("v"))]),
    Obj(<<KV("note", S("v"))>>), S("x"), Num("5"), Null }

ElementLists(sf) == UNION {[1..n -> ElementChoices(sf)] : n \in 1..MaxElements}

GenericRecord(sf, elements) ==
  With(BaseRecord, "contentSections",
       Obj(<<KV("hero", HeroSection),
             KV(sf[1], Obj(<<KV("title", S("T")), KV(sf[2], Arr(elements))>>))>>))

CallGeneric ==
  /\ calls = 0
  /\ \E sf \in KeyedArrays : \E elements \in ElementLists(sf) :
        validateConverters(<<GenericRecord(sf, elements)>>)
  /\ UNCHANGED <<faulty, cli, page>>

SpecGeneric == Init /\ [][CallGeneric]_vars

(* The section and field of the validated record, and the array's elements *)
InputKeyed ==
  CHOOSE sf \in KeyedArrays : HasKey(Get(converters[1], "contentSections"), sf[1])

InputElements ==
  Get(Get(Get(converters[1], "contentSections"), InputKeyed[1]), InputKeyed[2]).a

ElementPath(i) == Idx(InputKeyed[1] \o "." \o InputKeyed[2], i)

(* C25: every element of such an array that is no object gets an error     *)
(* naming the array and its index, and every element that is an object     *)
(* without one of the required keys gets an error naming the array, its    *)
(* index and that key.                                                     *)
C25_ItemRequiredKeys ==
  (calls = 1 /\ Len(Results) = 1 /\ ~Results[1].thrown) =>
    \A i \in 1..Len(InputElements) :
      IF TypeOf(InputElements[i]) # "object" \/ InputElements[i] = Null
        THEN "\"" \o ElementPath(i) \o "\" must be an object" \in ErrorSet(1)
        ELSE \A k \in 1..Len(ItemKeys(InputKeyed)) :
               ~HasKey(InputElements[i], ItemKeys(InputKeyed)[k]) =>
                  "\"" \o ElementPath(i) \o "\" missing required key: \""
                    \o ItemKeys(InputKeyed)[k] \o "\"" \in ErrorSet(1)

-----------------------------------------------------------------------------
(* Cross-field rules (SpecCross): a record with a comparisonTable, a tips  *)
(* or a related section whose two alternative fields are varied.           *)

Rows(n) == Arr([i \in 1..n |-> Obj(<<KV("a", S("v"))>>)])
Strings(n) == Arr([i \in 1..n |-> S("v")])

ColumnsChoices == {Undefined, Null, S("x"), Strings(0), Strings(1), Strings(2), Strings(3)}
RowsChoices == {Undefined, Null, Obj(<<>>), Rows(0), Rows(7), Rows(8), Rows(9)}
AlternativeChoices == {Undefined, Null, S("x"), Obj(<<>>), Strings(0), Strings(1)}

CrossSections ==
  { <<"comparisonTable", "columns", c, "rows", r>> :
       c \in ColumnsChoices, r \in RowsChoices }
  \cup { <<"tips", "tips", a, "items", b>> :
           a \in AlternativeChoices, b \in AlternativeChoices }
  \cup { <<"related", "links", a, "items", b>> :
           a \in AlternativeChoices, b \in AlternativeChoices }

CrossRecord(x) ==
  With(BaseRecord, "contentSections",
       Obj(<<KV("hero", HeroSection),
             KV(x[1], ApplyOverrides(Obj(<<KV("title", S("T"))>>),
                                     <<KV(x[2], x[3]), KV(x[4], x[5])>>))>>))

CallCross ==
  /\ calls = 0
  /\ \E x \in CrossSections : validateConverters(<<CrossRecord(x)>>)
  /\ UNCHANGED <<faulty, cli, page>>

SpecCross == Init /\ [][CallCross]_vars

(* The section of the validated record with a cross-field rule *)
CrossName ==
  CHOOSE n \in {"comparisonTable", "tips", "related"} :
    HasKey(Get(converters[1], "contentSections"), n)

CrossField(field) ==
  Get(Get(Get(converters[1], "contentSections"), CrossName), field)

AsArray(field) == CrossField(field).type = "array"

MinItemsMsg(path, minItems, n) ==
  "\"" \o path \o "\" must have at least " \o ToString(minItems)
    \o " items (has " \o ToString(n) \o ")"

ColumnsNoRowsMsg == "\"contentSections.comparisonTable\" has columns but no rows"
RowsNoColumnsMsg == "\"contentSections.comparisonTable\" has rows but no columns"
TipsOrItemsMsg == "\"contentSections.tips\" must have either \"tips\" or \"items\" array"
LinksOrItemsMsg == "\"contentSections.related\" must have either \"links\" or \"items\" array"

-----------------------------------------------------------------------------
(* Error paths (SpecItems)                                                  *)

StartsWith(text, prefix) ==
  Len(text) >= Len(prefix) /\ SubSeq(text, 1, Len(prefix)) = prefix

(* The errors produced while the sections of the validated record are      *)
(* validated, section by section                                           *)
SectionErrors(k) ==
  validateContentSection(InputSectionsOf(1)[k].k, InputSectionsOf(1)[k].v)

(* C27: every error produced while a section S of contentSections is       *)
(* validated is in the record's error list, starts with the path           *)
(* contentSections.S (bare or quoted), and occurs once.                    *)
C27_PathDiscipline ==
  (calls = 1 /\ Len(Results) = 1 /\ ~Results[1].thrown) =>
    \A k \in 1..Len(InputSectionsOf(1)) :
      \A e \in SeqToSet(SectionErrors(k)) :
        /\ Count(Results[1].errors, e) = 1
        /\ \/ StartsWith(e, "contentSections." \o InputSectionsOf(1)[k].k)
           \/ StartsWith(e, "\"contentSections." \o InputSectionsOf(1)[k].k)

-----------------------------------------------------------------------------
(* One error per rule (SpecRecord)                                          *)

(* C28: a violated rule puts one string into the record's error list: no   *)
(* error string occurs twice, and an absent defaults, a supportedUnits     *)
(* that is no array and a faqs that is no array are each reported once.    *)
C28_OneErrorPerRule ==
  (calls = 1 /\ Len(Results) = 1 /\ ~Results[1].thrown) =>
    /\ \A e \in ErrorSet(1) : Count(Results[1].errors, e) = 1
    /\ ~HasKey(converters[1], "defaults")
         => Count(Results[1].errors, RequiredFieldMsg("defaults")) = 1
    /\ Count(Results[1].errors, MustBeArrayMsg("supportedUnits")) <= 1
    /\ Count(Results[1].errors, MustBeArrayMsg("faqs")) <= 1

-----------------------------------------------------------------------------
(* The converter page generated by generate.js (SpecConvert): convert()    *)
(* of initConverter.  Factors and values are integers; a formula stands    *)
(* for the text `x * k`, or for a text whose evaluation throws (bad).  A   *)
(* result is the expression convert evaluated (its kind) with its value as *)
(* the fraction num / den; the formatting of the displayed text is left    *)
(* out.                                                                    *)

FROM == "cup"
TO == "gram"

NoFactor == [has |-> FALSE, v |-> 0]
Factor(v) == [has |-> TRUE, v |-> v]

(* data.conversions: absent, or the rows for FROM and TO with the factors  *)
(* conversions[FROM][TO] and conversions[TO][FROM]                         *)
NoConversions == [present |-> FALSE, direct |-> NoFactor, reverse |-> NoFactor]
Conversions(direct, reverse) == [present |-> TRUE, direct |-> direct, reverse |-> reverse]

ConversionsData ==
  {NoConversions}
  \cup {Conversions(d, r) : d \in {NoFactor, Factor(0), Factor(2)},
                            r \in {NoFactor, Factor(0), Factor(4)}}

Formula(from, to, k) == [from |-> from, to |-> to, k |-> k, bad |-> FALSE, ingredient |-> ""]
BadFormula(from, to) == [from |-> from, to |-> to, k |-> 0, bad |-> TRUE, ingredient |-> ""]

NoList == [isArray |-> FALSE, a |-> <<>>]
List(formulas) == [isArray |-> TRUE, a |-> formulas]

FormulasData ==
  { NoList, List(<<>>), List(<<Formula("ounce", "pound", 3)>>),
    List(<<Formula(FROM, TO, 3)>>), List(<<Formula(TO, FROM, 3)>>),
    List(<<BadFormula(FROM, TO)>>),
    List(<<Formula(FROM, "ounce", 3), Formula("ounce", TO, 5)>>) }

IngredientFormula(name, k) == [Formula(FROM, TO, k) EXCEPT !.ingredient = name]

IngredientData ==
  { NoList, List(<<IngredientFormula("sugar", 7)>>),
    List(<<IngredientFormula("sugar", 7), IngredientFormula("flour", 6)>>) }

NoResult == [kind |-> "null", num |-> 0, den |-> 1]
Result(kind, num, den) == [kind |-> kind, num |-> num, den |-> den]

COMMON_UNITS == <<"celsius", "fahrenheit", "gram", "ounce", "cup", "milliliter">>

Matches(formulas, from, to) ==
  {i \in 1..Len(formulas) : formulas[i].from = from /\ formulas[i].to = to}

First(indices) == CHOOSE i \in indices : \A j \in indices : i <= j
Last(indices) == CHOOSE i \in indices : \A j \in indices : j <= i

(* applyFormula(value, from, to, formulas): the first formula for the pair, *)
(* else the numerical inverse of the first formula for the reversed pair,   *)
(* else the chain through the first common unit that has both formulas,     *)
(* else null; a formula that throws gives null.                             *)
applyFormula(value, from, to, formulas) ==
  LET direct == Matches(formulas, from, to)
      reverse == Matches(formulas, to, from)
      chains == {c \in 1..Len(COMMON_UNITS) :
                   /\ COMMON_UNITS[c] # from /\ COMMON_UNITS[c] # to
                   /\ Matches(formulas, from, COMMON_UNITS[c]) # {}
                   /\ Matches(formulas, COMMON_UNITS[c], to) # {}}
  IN IF direct # {}
       THEN IF formulas[First(direct)].bad THEN NoResult
            ELSE Result("formula", formulas[First(direct)].k * value, 1)
     ELSE IF reverse # {}
       THEN IF formulas[First(reverse)].bad THEN NoResult
            ELSE Result("inverse", value, formulas[First(reverse)].k)
     ELSE IF chains # {}
       THEN LET unit == COMMON_UNITS[First(chains)]
                f1 == formulas[Last(Matches(formulas, from, unit))]
                f2 == formulas[Last(Matches(formulas, unit, to))]
            IN IF f1.bad \/ f2.bad THEN NoResult
               ELSE Result("chain", f2.k * f1.k * value, 1)
     ELSE NoResult

(* PRIORITY 1: the formula of the selected ingredient *)
ingredientResult(value, ingredient, data) ==
  LET found == {i \in Matches(data.ingredientFormulas.a, FROM, TO) :
                  data.ingredientFormulas.a[i].ingredient = ingredient}
  IN IF ingredient # "" /\ data.ingredientFormulas.isArray /\ found # {}
       THEN Result("ingredient", data.ingredientFormulas.a[First(found)].k * value, 1)
       ELSE NoResult

(* A factor that passes the truthiness test of the chain *)
Usable(factor) == factor.has /\ factor.v # 0

(* PRIORITY 2 to 4: one if / else-if chain, so that only the first branch  *)
(* whose condition holds is taken                                          *)
resultOf(value, ingredient, data) ==
  LET first == ingredientResult(value, ingredient, data)
  IN IF first # NoResult THEN first
     ELSE IF data.conversions.present /\ Usable(data.conversions.direct)
       THEN Result("direct", value * data.conversions.direct.v, 1)
     ELSE IF data.conversionFormulas.isArray
       THEN applyFormula(value, FROM, TO, data.conversionFormulas.a)
     ELSE IF data.conversions.present /\ Usable(data.conversions.reverse)
       THEN Result("reciprocal", value, data.conversions.reverse.v)
     ELSE NoResult

(* parseFloat(fromInput.value) || 0 *)
ParseValue(input) == IF input.number THEN input.n ELSE 0

Inputs == {[number |-> FALSE, n |-> 0], [number |-> TRUE, n |-> 8]}

(* convert(): the result is shown, or 'Conversion not available' *)
convert(input, ingredient, data) ==
  page' = [converted |-> TRUE, data |-> data, input |-> input,
           ingredient |-> ingredient,
           result |-> resultOf(ParseValue(input), ingredient, data),
           shown |-> resultOf(ParseValue(input), ingredient, data) # NoResult]

(* A page is generated for some converter data and convert runs once *)
Convert ==
  /\ ~page.converted
  /\ \E conversions \in ConversionsData, formulas \in FormulasData,
        ingredientFormulas \in IngredientData, ingredient \in {"", "flour"},
        input \in Inputs :
        convert(input, ingredient,
                [conversions |-> conversions, conversionFormulas |-> formulas,
                 ingredientFormulas |-> ingredientFormulas])
  /\ UNCHANGED <<converters, failedIds, wordCounts, warnings, outcome, calls,
                 faulty, cli>>

SpecConvert == Init /\ [][Convert]_vars

(* C29: when no ingredient formula applies, a usable direct factor is used *)
(* even beside a conversionFormulas array; and when there is no usable     *)
(* direct factor, the formula lookup gives no result and the reverse       *)
(* factor exists, the result is value / conversions[to][from].             *)
C29_RenderingFallbacks ==
  page.converted =>
    LET data == page.data
        value == ParseValue(page.input)
        looked == IF data.conversionFormulas.isArray
                    THEN applyFormula(value, FROM, TO, data.conversionFormulas.a)
                    ELSE NoResult
    IN ingredientResult(value, page.ingredient, data) = NoResult =>
         /\ (data.conversions.present /\ Usable(data.conversions.direct))
              => page.result = Result("direct", value * data.conversions.direct.v, 1)
         /\ (/\ ~(data.conversions.present /\ Usable(data.conversions.direct))
             /\ looked = NoResult
             /\ data.conversions.present /\ Usable(data.conversions.reverse))
              => /\ page.result = Result("reciprocal", value, data.conversions.reverse.v)
                 /\ page.shown

-----------------------------------------------------------------------------
(* Returned reports and the accumulators of the instance (Spec) *)

Failing(i) == ~Results[i].thrown /\ Results[i].errors # <<>>
KeySet(entries) == {entries[k].k : k \in 1..Len(entries)}
IsPrefix(q, r) == Len(q) <= Len(r) /\ SubSeq(r, 1, Len(q)) = q

(* Every returned report is the all-valid report *)
ReturnedReportAllValid ==
  outcome.kind = "returned" =>
    /\ outcome.report.isValid
    /\ outcome.report.failed = 0
    /\ outcome.report.failedIds = <<>>
    /\ outcome.report.valid = outcome.report.total
    /\ failedIds = <<>>

(* A call with a failing record ends in the exit of printSummary, after    *)
(* the last record and the summary, with no report                         *)
FailingCallExits ==
  (calls > 0 /\ \E i \in Reached : Failing(i)) =>
    /\ outcome.kind = "exit"
    /\ Len(Results) = Len(converters)
    /\ outcome.summary
    /\ outcome.report = NoReport

(* A call keeps the word counts and warnings collected before it *)
AccumulatorsKept ==
  /\ KeySet(wordCounts) \subseteq KeySet(wordCounts')
  /\ IsPrefix(warnings, warnings')

(* C30: a returned report has isValid = true, failed = 0, failedIds empty  *)
(* and valid = total; every call in which a record fails ends with exit    *)
(* code 1 inside printSummary, after all records were validated and the    *)
(* summary printed and before a report is returned; so after returned      *)
(* calls failedIds is still empty while wordCounts and warnings keep the   *)
(* entries of the earlier calls.                                           *)
C30_OnlyAllValidReportsReturn ==
  /\ [](ReturnedReportAllValid /\ FailingCallExits)
  /\ [][AccumulatorsKept]_vars

=============================================================================
